---- MODULE Spec2Model ----
(***************************************************************************)
(* Crawl-and-index core of gemini_webScrapper: the WebScraper breadth-first *)
(* crawl (web_scraper.py), its link resolver, and the GUI's ProgressScraper *)
(* with its start/stop controls (gui_scraper.py).                           *)
(*                                                                          *)
(* Strings that the code inspects character by character (URLs) are        *)
(* sequences of one-character strings.                                      *)
(***************************************************************************)
EXTENDS Integers, Sequences, FiniteSets, TLC

VARIABLES
    pc,             \* position of the caller of WebScraper.scrape_website
    start_url,      \* argument of the scrape_website call in progress
    urls_to_visit,  \* the frontier (local list of scrape_website)
    visited_urls,   \* WebScraper.visited_urls
    scraped_data,   \* WebScraper.scraped_data
    returned,       \* value returned by the last scrape_website call
    calls,          \* number of scrape_website calls made on the scraper
    call_base,      \* observation: len(scraped_data) when the call began
    last_page,      \* observation: outcome of the last scrape_page call
    last_event,     \* observation: "none", "fetch" or "sleep"
    undelayed,      \* observation: a fetch began right after another fetch
    r_in,           \* link resolver: the (base_url, href) being resolved
    r_out,          \* link resolver: the result of find_internal_links
    is_scraping,    \* ScraperGUI.is_scraping
    start_button,   \* state of ScraperGUI.start_button
    stop_button,    \* state of ScraperGUI.stop_button
    wpc,            \* position of the scrape_worker thread that is crawling
    workers,        \* number of scrape_worker threads started
    pending,        \* workers in their finally block, before its last line
    temp_queue,     \* ProgressScraper.scrape_website: temp_queue
    temp_visited,   \* ProgressScraper.scrape_website: temp_visited
    page_count,     \* ProgressScraper.scrape_website: page_count
    total_pages,    \* ProgressScraper.total_pages
    in_flight,      \* the URL whose fetch is in flight
    stop_seen,      \* observation: stop_scraping cancelled the crawl in progress
    late_fetch,     \* observation: a fetch began after that cancellation
    processed_data, \* the entry list handed to KnowledgeBaseFormatter
    knowledge_base, \* result of create_knowledge_base_structure
    chatbot_data,   \* result of create_chatbot_ready_format
    fpc,            \* position of the caller of the formatter and the savers
    chatbot_file,   \* content of the chatbot JSON file on disk
    sql_statements, \* result of SimpleSQLConverter.generate_sql_inserts
    save_log,       \* observation: outcome of the last save operation
    epc,            \* position of LlamaProcessor.batch_process_pages
    batch_pages,    \* its argument, the scraped pages
    batch_i,        \* index of the page the loop is at
    now,            \* time.time(), in seconds
    last_request_time, \* LlamaProcessor.last_request_time
    wake,           \* the time before which time.sleep does not return
    request_starts, \* observation: the times at which API requests began
    last_response,  \* observation: what the API call for the last entry did
    gpc,            \* position of WebScraper.get_page_content
    retries,        \* the Retry object of the request in progress
    attempts,       \* observation: requests sent by the call in progress
    retried_after,  \* observation: what each retry of the call followed
    last_reply,     \* observation: what the last request of the call met
    outcome,        \* what get_page_content did: its return value, or "raised"
    fetches,        \* number of get_page_content calls made
    sql_in,         \* SQL conversion on its own: training data and business id
    sql_out         \* SQL conversion on its own: the statements generated

crawlVars == <<pc, start_url, urls_to_visit, visited_urls, scraped_data,
               returned, calls, call_base, last_page, last_event, undelayed>>
resolverVars == <<r_in, r_out>>
guiVars == <<is_scraping, start_button, stop_button, wpc, workers, pending,
             temp_queue, temp_visited, page_count, total_pages, in_flight,
             stop_seen, late_fetch>>
formatVars == <<processed_data, knowledge_base, chatbot_data, fpc, chatbot_file,
                sql_statements, save_log>>
enrichVars == <<epc, batch_pages, batch_i, now, last_request_time, wake,
                request_starts, last_response>>
fetchVars == <<gpc, retries, attempts, retried_after, last_reply, outcome, fetches>>
sqlVars == <<sql_in, sql_out>>
pipeVars == <<formatVars, enrichVars, fetchVars, sqlVars>>
vars == <<crawlVars, resolverVars, guiVars, pipeVars>>

-----------------------------------------------------------------------------
(* Bounds of the model and configuration values                            *)

\* Config.MAX_PAGES, the page budget (config.py:12, default 50)
MAX_PAGES == 2
\* Config.MIN_CONTENT_LENGTH (config.py:21)
MIN_CONTENT_LENGTH == 100
\* number of scrape_website calls made on one scraper object
MaxCalls == 2
\* number of scrape_website calls followed to their end under fairness
MaxFairCalls == 1
\* number of scrape_worker threads started in the GUI
MaxWorkers == 2
\* number of anchors with an href on one page
MaxAnchors == 2

-----------------------------------------------------------------------------
(* Character strings                                                        *)

Upper == <<"A","B","C","D","E","F","G","H","I","J","K","L","M",
           "N","O","P","Q","R","S","T","U","V","W","X","Y","Z">>
LowerOf == <<"a","b","c","d","e","f","g","h","i","j","k","l","m",
             "n","o","p","q","r","s","t","u","v","w","x","y","z">>

\* str.lower(), one character
LowerChar(c) ==
    IF \E i \in 1..26 : Upper[i] = c
    THEN LowerOf[CHOOSE i \in 1..26 : Upper[i] = c]
    ELSE c

\* str.lower()
Lower(s) == [i \in 1..Len(s) |-> LowerChar(s[i])]

\* str.endswith(suf)
EndsWith(s, suf) ==
    /\ Len(suf) <= Len(s)
    /\ SubSeq(s, Len(s) - Len(suf) + 1, Len(s)) = suf

\* the sequences that enumerate the finite set S, each element once
Perms(S) ==
    {f \in [1..Cardinality(S) -> S] : \A x \in S : \E i \in DOMAIN f : f[i] = x}

\* the subsets of S with at most k elements
RECURSIVE SubsetsUpTo(_, _)
SubsetsUpTo(S, k) ==
    IF k = 0 THEN {{}}
    ELSE LET smaller == SubsetsUpTo(S, k - 1)
         IN smaller \cup {hs \cup {x} : hs \in smaller, x \in S}

\* the elements of a sequence
Range(s) == {s[i] : i \in DOMAIN s}

-----------------------------------------------------------------------------
(* URLs: urllib.parse as used by web_scraper.py                             *)

Empty == <<>>
Http == <<"h","t","t","p">>
HostX == <<"x">>
HostY == <<"y">>
PathA == <<"/","a">>
PathB == <<"/","b">>
PathC == <<"/","c">>
PathJs == <<"/","d",".","j","s">>
PathJsUpper == <<"/","d",".","J","S">>
Mailto == <<"m","a","i","l","t","o">>
QueryX == <<"x","=","1">>
QueryJs == <<"f","=",".","j","s">>
FragF == <<"f">>

\* urlparse(s): the parsed form of a URL string (params are never used)
Url(scheme, netloc, path, query, fragment) ==
    [scheme |-> scheme, netloc |-> netloc, path |-> path,
     query |-> query, fragment |-> fragment]

\* an anchor's href attribute; bad: urljoin/urlparse raise ValueError on it
\* (an unbalanced "[" in the host part, "Invalid IPv6 URL")
Href(bad, scheme, netloc, path, query, fragment) ==
    [bad |-> bad, scheme |-> scheme, netloc |-> netloc, path |-> path,
     query |-> query, fragment |-> fragment]

\* ParseResult.geturl(): the URL string of a parsed URL
geturl(u) ==
    (IF u.scheme # Empty THEN u.scheme \o <<":">> ELSE Empty)
    \o (IF u.netloc # Empty THEN <<"/","/">> \o u.netloc ELSE Empty)
    \o u.path
    \o (IF u.query # Empty THEN <<"?">> \o u.query ELSE Empty)
    \o (IF u.fragment # Empty THEN <<"#">> \o u.fragment ELSE Empty)

\* urljoin(base_url, href) for an href that parses; paths are absolute or empty
urljoin(base, h) ==
    IF h.scheme # Empty /\ h.scheme # base.scheme
    THEN Url(h.scheme, h.netloc, h.path, h.query, h.fragment)
    ELSE IF h.netloc # Empty
    THEN Url(base.scheme, h.netloc, h.path, h.query, h.fragment)
    ELSE IF h.path = Empty
    THEN Url(base.scheme, base.netloc, base.path,
             IF h.query = Empty THEN base.query ELSE h.query, h.fragment)
    ELSE Url(base.scheme, base.netloc, h.path, h.query, h.fragment)

skip_extensions ==
    { <<".","p","d","f">>, <<".","j","p","g">>, <<".","j","p","e","g">>,
      <<".","p","n","g">>, <<".","g","i","f">>, <<".","c","s","s">>,
      <<".","j","s">>, <<".","x","m","l">>, <<".","z","i","p">>,
      <<".","d","o","c">>, <<".","d","o","c","x">> }

\* is_valid_url without the same-host test
is_valid_url_any_host(url, base) ==
    IF url.scheme = Empty \/ url.netloc = Empty THEN FALSE
    ELSE IF LET lowered == Lower(geturl(url))
            IN \E ext \in skip_extensions : EndsWith(lowered, ext) THEN FALSE
    ELSE IF url.fragment # Empty THEN FALSE
    ELSE TRUE

\* WebScraper.is_valid_url(url, base_domain)
is_valid_url(url, base) ==
    IF url.scheme = Empty \/ url.netloc = Empty THEN FALSE
    ELSE IF url.netloc # base.netloc THEN FALSE
    ELSE IF LET lowered == Lower(geturl(url))
            IN \E ext \in skip_extensions : EndsWith(lowered, ext) THEN FALSE
    ELSE IF url.fragment # Empty THEN FALSE
    ELSE TRUE

\* urlparse(absolute_url)._replace(fragment='', query='').geturl()
clean_url(url) == [url EXCEPT !.fragment = Empty, !.query = Empty]

\* the loop body of find_internal_links for one anchor: the links it appends
resolve_link(base, h, visited) ==
    LET absolute_url == urljoin(base, h) IN
    IF is_valid_url(absolute_url, base) /\ clean_url(absolute_url) \notin visited
    THEN {clean_url(absolute_url)}
    ELSE {}

\* WebScraper.find_internal_links(soup, base_url): raised when urljoin raises
\* on some anchor, else the set behind list(set(links))
find_internal_links(hrefs, base, visited) ==
    IF \E h \in hrefs : h.bad
    THEN [raised |-> TRUE, links |-> {}]
    ELSE [raised |-> FALSE,
          links |-> UNION {resolve_link(base, h, visited) : h \in hrefs}]

-----------------------------------------------------------------------------
(* The web, as the crawl sees it                                            *)

\* the hrefs an anchor of a fetched page may carry
CrawlHrefs ==
    { Href(FALSE, Empty, Empty, PathA, Empty, Empty),      \* /a
      Href(FALSE, Empty, Empty, PathB, Empty, Empty),      \* /b
      Href(FALSE, Empty, Empty, PathC, QueryX, Empty),     \* /c?x=1
      Href(FALSE, Empty, HostY, PathA, Empty, Empty),      \* //y/a
      Href(TRUE, Empty, Empty, Empty, Empty, Empty) }      \* //[

\* the start URLs a caller passes (validated by the CLI/GUI: scheme and host)
StartUrls ==
    { Url(Http, HostX, PathA, Empty, Empty),
      Url(Http, HostX, PathB, Empty, Empty),
      Url(Http, HostX, PathA, QueryX, Empty) }

\* len(all_text) of a fetched page
ContentLengths == {MIN_CONTENT_LENGTH - 1, MIN_CONTENT_LENGTH}

\* get_page_content returned None (request error, non-HTML, bot challenge)
NoSoup == [soup |-> FALSE, content_length |-> 0, hrefs |-> {}]

\* what one fetch of a URL can yield
Pages ==
    {NoSoup} \cup
    { [soup |-> TRUE, content_length |-> n, hrefs |-> hs] :
        n \in ContentLengths,
        hs \in SubsetsUpTo(CrawlHrefs, MaxAnchors) }

-----------------------------------------------------------------------------
(* WebScraper.scrape_page and WebScraper.scrape_website                     *)

NoResult(kind) ==
    [kind |-> kind, url |-> Empty, content_length |-> 0, internal_links |-> <<>>]

\* scrape_page without the test of the content length
scrape_page_any_length(url, page, visited) ==
    IF ~page.soup THEN {NoResult("none")}
    ELSE LET found == find_internal_links(page.hrefs, url, visited) IN
         IF found.raised THEN {NoResult("raise")}
         ELSE { [kind |-> "data", url |-> url,
                 content_length |-> page.content_length,
                 internal_links |-> ls] : ls \in Perms(found.links) }

\* WebScraper.scrape_page(url): the results it can have on a fetched page.
\* kind "none" is the None return, "raise" an exception leaving scrape_page,
\* "data" a page_data dict; list(set(links)) may come out in any order.
scrape_page(url, page, visited) ==
    IF ~page.soup THEN {NoResult("none")}
    ELSE LET found == find_internal_links(page.hrefs, url, visited) IN
         IF found.raised THEN {NoResult("raise")}
         ELSE IF page.content_length < MIN_CONTENT_LENGTH THEN {NoResult("none")}
         ELSE { [kind |-> "data", url |-> url,
                 content_length |-> page.content_length,
                 internal_links |-> ls] : ls \in Perms(found.links) }

\* observation: find_internal_links found an internal link on the page
has_links(url, page, visited) ==
    /\ page.soup
    /\ LET found == find_internal_links(page.hrefs, url, visited)
       IN ~found.raised /\ found.links # {}

\* LoopCond with the budget compared by <= (one page too many)
LoopCondInclusive == urls_to_visit # <<>> /\ Len(scraped_data) <= MAX_PAGES

\* LoopCond that stops one page short of the budget
LoopCondShort == urls_to_visit # <<>> /\ Len(scraped_data) < MAX_PAGES - 1

\* the condition of scrape_website's while loop
LoopCond == urls_to_visit # <<>> /\ Len(scraped_data) < MAX_PAGES

\* enqueue without its two membership tests
enqueue_all(queue, links, visited) == queue \o links

\* "for link in internal_links: if link not in visited and not in queue: append"
enqueue(queue, links, visited) ==
    queue \o SelectSeq(links, LAMBDA l : l \notin visited /\ l \notin Range(queue))

\* no scrape_page call made in this iteration yet
NoPage ==
    [fetched |-> FALSE, soup |-> FALSE, content_length |-> 0, kind |-> "none",
     had_links |-> FALSE]

CrawlInit ==
    /\ pc = "idle"
    /\ start_url = Empty
    /\ urls_to_visit = <<>>
    /\ visited_urls = {}
    /\ scraped_data = <<>>
    /\ returned = <<>>
    /\ calls = 0
    /\ call_base = 0
    /\ last_page = NoPage
    /\ last_event = "none"
    /\ undelayed = FALSE

\* the visited set that forgets the URL
mark_visited_none(visited, url) == visited

\* self.visited_urls.add(current_url): line 262
mark_visited(visited, url) == visited \cup {url}

\* a caller invokes scraper.scrape_website(u): lines 253-254
scrape_website(u, limit) ==
    /\ pc \in {"idle", "done", "raised"}
    /\ calls < limit
    /\ calls' = calls + 1
    /\ start_url' = u
    /\ urls_to_visit' = <<u>>
    /\ visited_urls' = {}
    /\ call_base' = Len(scraped_data)
    /\ last_page' = NoPage
    /\ pc' = "loop"
    /\ UNCHANGED <<scraped_data, returned, last_event, undelayed>>

\* one iteration of the while loop up to the sleep: lines 256-277
crawl_step(page) ==
    /\ pc = "loop"
    /\ LoopCond
    /\ LET current_url == Head(urls_to_visit)
           rest == Tail(urls_to_visit)
       IN IF current_url \in visited_urls
          THEN /\ urls_to_visit' = rest
               /\ UNCHANGED <<pc, visited_urls, scraped_data,
                              last_page, last_event, undelayed>>
          ELSE LET seen == mark_visited(visited_urls, current_url)
                   had_links == has_links(current_url, page, seen)
               IN
               \E page_data \in scrape_page(current_url, page, seen) :
               /\ visited_urls' = seen
               /\ last_event' = "fetch"
               /\ undelayed' = (undelayed \/ last_event = "fetch")
               /\ last_page' = [fetched |-> TRUE, soup |-> page.soup,
                                content_length |-> page.content_length,
                                kind |-> page_data.kind,
                                had_links |-> had_links]
               /\ IF page_data.kind = "data"
                  THEN LET rec == [url |-> page_data.url,
                                   content_length |-> page_data.content_length,
                                   internal_links |-> page_data.internal_links]
                       IN /\ scraped_data' = Append(scraped_data, rec)
                          /\ urls_to_visit' =
                                enqueue(rest, page_data.internal_links, visited_urls')
                  ELSE /\ urls_to_visit' = rest
                       /\ UNCHANGED scraped_data
               /\ pc' = IF page_data.kind = "raise" THEN "raised" ELSE "sleep"
    /\ UNCHANGED <<start_url, returned, calls, call_base>>

\* time.sleep(Config.DELAY_BETWEEN_REQUESTS): line 280
sleep ==
    /\ pc = "sleep"
    /\ pc' = "loop"
    /\ last_event' = "sleep"
    /\ last_page' = NoPage
    /\ UNCHANGED <<start_url, urls_to_visit, visited_urls, scraped_data, returned,
                   calls, call_base, undelayed>>

\* the while loop ends and scrape_website returns self.scraped_data: lines 282-283
crawl_return ==
    /\ pc = "loop"
    /\ ~LoopCond
    /\ pc' = "done"
    /\ returned' = scraped_data
    /\ UNCHANGED <<start_url, urls_to_visit, visited_urls, scraped_data, calls,
                   call_base, last_page, last_event, undelayed>>

\* the hrefs handed to the link resolver on its own
ResolverHrefs ==
    { Href(FALSE, Empty, n, p, q, f) :
        n \in {Empty, HostY}, p \in {Empty, PathA, PathJs, PathJsUpper},
        q \in {Empty, QueryX, QueryJs}, f \in {Empty, FragF} }
    \cup { Href(FALSE, Mailto, Empty, <<"a">>, Empty, Empty),     \* mailto:a
           Href(TRUE, Empty, Empty, Empty, Empty, Empty) }         \* //[

\* the pages (base_url) whose anchors are resolved
ResolverBases ==
    { Url(Http, HostX, PathA, Empty, Empty),
      Url(Http, HostX, PathB, QueryX, Empty) }

\* the calls find_internal_links(soup, base_url) made on the resolver alone:
\* the page's anchors and self.visited_urls at the time
ResolverInputs ==
    [ base : ResolverBases,
      hrefs : SubsetsUpTo(ResolverHrefs, MaxAnchors),
      visited : {{}, {Url(Http, HostX, PathA, Empty, Empty)}} ]

\* find_internal_links has not returned yet
NotResolved == [done |-> FALSE, raised |-> FALSE, links |-> {}]

ResolverInit ==
    /\ r_in = [base |-> Url(Http, HostX, PathA, Empty, Empty), hrefs |-> {},
               visited |-> {}]
    /\ r_out = NotResolved

\* find_internal_links(soup, base_url) runs on the input r_in
resolve ==
    /\ ~r_out.done
    /\ LET found == find_internal_links(r_in.hrefs, r_in.base, r_in.visited)
       IN r_out' = [done |-> TRUE, raised |-> found.raised, links |-> found.links]
    /\ UNCHANGED r_in

\* ScraperGUI.__init__ and the widgets it creates
GuiInit ==
    /\ is_scraping = FALSE
    /\ start_button = "normal"
    /\ stop_button = "disabled"
    /\ wpc = "idle"
    /\ workers = 0
    /\ pending = 0
    /\ temp_queue = <<>>
    /\ temp_visited = {}
    /\ page_count = 0
    /\ total_pages = 0
    /\ in_flight = Empty
    /\ stop_seen = FALSE
    /\ late_fetch = FALSE

\* no entry list has been handed to the formatter
NoKnowledgeBase ==
    [metadata |-> [total_pages |-> 0, total_faqs |-> 0, total_keywords |-> 0,
                   content_types |-> <<>>],
     pages |-> <<>>,
     search_index |-> [by_url |-> <<>>, by_title |-> <<>>,
                       by_content_type |-> <<>>, by_relevance |-> <<>>],
     faq_section |-> <<>>, topics_index |-> <<>>, keywords_index |-> <<>>]

\* the chatbot_data dict as create_chatbot_ready_format initialises it
EmptyChatbotData ==
    [intents |-> <<>>, responses |-> <<>>, contexts |-> <<>>, entities |-> <<>>,
     training_data |-> <<>>]

\* no save operation has run
NoSave == [op |-> "none", attempts |-> 0, io_failed |-> FALSE, raised |-> FALSE,
           success_reported |-> FALSE]

\* the chatbot JSON file does not exist
NoFile == [exists |-> FALSE, data |-> EmptyChatbotData]

FormatInit ==
    /\ processed_data = <<>>
    /\ knowledge_base = NoKnowledgeBase
    /\ chatbot_data = EmptyChatbotData
    /\ fpc = "idle"
    /\ chatbot_file = NoFile
    /\ sql_statements = <<>>
    /\ save_log = NoSave

\* Config.LLAMA_RATE_LIMIT_DELAY, in seconds (config.py:30)
LLAMA_RATE_LIMIT_DELAY == 2

\* LlamaProcessor.__init__: lines 20-21; the clock is far from zero
EnrichInit ==
    /\ epc = "idle"
    /\ batch_pages = <<>>
    /\ batch_i = 1
    /\ now = LLAMA_RATE_LIMIT_DELAY
    /\ last_request_time = 0
    /\ wake = 0
    /\ request_starts = <<>>
    /\ last_response = "none"

\* Retry(total=5, ...): web_scraper.py:34
RetryTotal == 5
\* Retry(connect=5, ...): web_scraper.py:35
RetryConnect == 5
\* Retry(read=5, ...): web_scraper.py:36
RetryRead == 5
\* Retry(status=5, ...): web_scraper.py:37
RetryStatus == 5

\* retry_strategy as WebScraper.__init__ builds it: the retries left
retry_strategy ==
    [total |-> RetryTotal, connect |-> RetryConnect, read |-> RetryRead,
     status |-> RetryStatus]

\* no request has met anything
NoReply == [kind |-> "none", status |-> 0, retry_after |-> FALSE, html |-> FALSE,
            blocked |-> FALSE]

\* no get_page_content call has been made
FetchInit ==
    /\ gpc = "idle"
    /\ retries = retry_strategy
    /\ attempts = 0
    /\ retried_after = {}
    /\ last_reply = NoReply
    /\ outcome = "none"
    /\ fetches = 0

\* generate_sql_inserts has not returned yet
NotGenerated == [done |-> FALSE, statements |-> <<>>]

\* no conversion has been asked for
SqlInit ==
    /\ sql_in = [training_data |-> <<>>, business_id |-> <<>>]
    /\ sql_out = NotGenerated

PipeInit == FormatInit /\ EnrichInit /\ FetchInit /\ SqlInit

Init == CrawlInit /\ ResolverInit /\ GuiInit /\ PipeInit

Next ==
    \/ \E u \in StartUrls : scrape_website(u, MaxCalls) /\ UNCHANGED <<resolverVars, guiVars, pipeVars>>
    \/ \E page \in Pages : crawl_step(page) /\ UNCHANGED <<resolverVars, guiVars, pipeVars>>
    \/ sleep /\ UNCHANGED <<resolverVars, guiVars, pipeVars>>
    \/ crawl_return /\ UNCHANGED <<resolverVars, guiVars, pipeVars>>

Spec == Init /\ [][Next]_vars

\* the loop of a call in progress keeps running (one thread, no blocking wait
\* other than the fetch and the sleep, both of which return)
CrawlRun == (\E page \in Pages : crawl_step(page)) \/ sleep \/ crawl_return

FairNext ==
    \/ \E u \in StartUrls : scrape_website(u, MaxFairCalls) /\ UNCHANGED <<resolverVars, guiVars, pipeVars>>
    \/ CrawlRun /\ UNCHANGED <<resolverVars, guiVars, pipeVars>>

FairSpec ==
    Init /\ [][FairNext]_vars /\ WF_vars(CrawlRun /\ UNCHANGED <<resolverVars, guiVars, pipeVars>>)


-----------------------------------------------------------------------------
(* The GUI: ScraperGUI.start_scraping, stop_scraping, scrape_worker and      *)
(* ProgressScraper.scrape_website (gui_scraper.py)                          *)

\* the URL typed into url_var
GuiUrl == Url(Http, HostX, PathA, Empty, Empty)

\* a fetch begins: the observations of the delay and of the cancellation
begin_fetch ==
    /\ last_event' = "fetch"
    /\ undelayed' = (undelayed \/ last_event = "fetch")
    /\ late_fetch' = (late_fetch \/ stop_seen)

\* the user clicks the start button: start_scraping, lines 1025-1044, and the
\* head of the new thread's scrape_worker and scrape_website, lines 1055-1094
start_scraping(valid) ==
    /\ start_button = "normal"
    /\ workers < MaxWorkers
    /\ IF ~valid \/ is_scraping
       THEN UNCHANGED <<crawlVars, guiVars>>
       ELSE /\ is_scraping' = TRUE
            /\ start_button' = "disabled"
            /\ stop_button' = "normal"
            /\ workers' = workers + 1
            /\ wpc' = "count"
            /\ urls_to_visit' = <<GuiUrl>>
            /\ visited_urls' = {}
            /\ scraped_data' = <<>>
            /\ temp_visited' = {}
            /\ temp_queue' = <<GuiUrl>>
            /\ page_count' = 0
            /\ stop_seen' = FALSE
            /\ last_event' = "none"
            /\ UNCHANGED <<pc, start_url, returned, calls, call_base, last_page,
                           undelayed, pending, total_pages, in_flight, late_fetch>>

\* the user clicks the stop button: stop_scraping, lines 1046-1053
stop_scraping ==
    /\ stop_button = "normal"
    /\ IF ~is_scraping
       THEN UNCHANGED <<crawlVars, guiVars>>
       ELSE /\ is_scraping' = FALSE
            /\ stop_seen' = (wpc \in {"count", "count_fetch", "scrape", "fetch", "sleep"})
            /\ UNCHANGED <<crawlVars, start_button, stop_button, wpc, workers,
                           pending, temp_queue, temp_visited, page_count,
                           total_pages, in_flight, late_fetch>>

\* the condition of the first pass's while loop
CountCond == temp_queue # <<>> /\ page_count < MAX_PAGES

\* first pass, one iteration up to the fetch: lines 1096-1104
count_begin ==
    /\ wpc = "count"
    /\ CountCond
    /\ LET url == Head(temp_queue) IN
       IF url \in temp_visited
       THEN /\ temp_queue' = Tail(temp_queue)
            /\ UNCHANGED <<crawlVars, is_scraping, start_button, stop_button, wpc,
                           workers, pending, temp_visited, page_count, total_pages,
                           in_flight, stop_seen, late_fetch>>
       ELSE /\ temp_queue' = Tail(temp_queue)
            /\ temp_visited' = temp_visited \cup {url}
            /\ page_count' = page_count + 1
            /\ in_flight' = url
            /\ wpc' = "count_fetch"
            /\ begin_fetch
            /\ UNCHANGED <<pc, start_url, urls_to_visit, visited_urls, scraped_data,
                           returned, calls, call_base, last_page, is_scraping,
                           start_button, stop_button, workers, pending,
                           total_pages, stop_seen>>

\* first pass, the fetch returns and the page's links are queued: lines 1104-1109;
\* an exception of find_internal_links reaches scrape_worker's handler
count_fetched(page) ==
    /\ wpc = "count_fetch"
    /\ LET found == find_internal_links(page.hrefs, in_flight, visited_urls) IN
       IF ~page.soup THEN wpc' = "count" /\ UNCHANGED temp_queue
       ELSE IF found.raised THEN wpc' = "finally" /\ UNCHANGED temp_queue
       ELSE /\ wpc' = "count"
            /\ \E ls \in Perms(found.links) :
                  temp_queue' = enqueue(temp_queue, ls, temp_visited)
    /\ UNCHANGED <<crawlVars, is_scraping, start_button, stop_button, workers,
                   pending, temp_visited, page_count, total_pages, in_flight,
                   stop_seen, late_fetch>>

\* the first pass ends: lines 1111-1112 (its locals are not read again)
count_exit ==
    /\ wpc = "count"
    /\ ~CountCond
    /\ total_pages' = IF page_count < MAX_PAGES THEN page_count ELSE MAX_PAGES
    /\ temp_queue' = <<>>
    /\ temp_visited' = {}
    /\ page_count' = 0
    /\ wpc' = "scrape"
    /\ UNCHANGED <<crawlVars, is_scraping, start_button, stop_button, workers,
                   pending, in_flight, stop_seen, late_fetch>>

\* the condition of the second pass's while loop: line 1115
ScrapeCond == LoopCond /\ is_scraping

\* second pass, one iteration up to the fetch: lines 1115-1129
scrape_begin ==
    /\ wpc = "scrape"
    /\ ScrapeCond
    /\ LET url == Head(urls_to_visit) IN
       IF url \in visited_urls
       THEN /\ urls_to_visit' = Tail(urls_to_visit)
            /\ UNCHANGED <<pc, start_url, visited_urls, scraped_data, returned,
                           calls, call_base, last_page, last_event, undelayed,
                           guiVars>>
       ELSE /\ urls_to_visit' = Tail(urls_to_visit)
            /\ visited_urls' = visited_urls \cup {url}
            /\ in_flight' = url
            /\ wpc' = "fetch"
            /\ begin_fetch
            /\ UNCHANGED <<pc, start_url, scraped_data, returned, calls, call_base,
                           last_page, is_scraping, start_button, stop_button,
                           workers, pending, temp_queue, temp_visited, page_count,
                           total_pages, stop_seen>>

\* second pass, scrape_page returns: lines 1129-1141
scrape_fetched(page) ==
    /\ wpc = "fetch"
    /\ \E page_data \in scrape_page(in_flight, page, visited_urls) :
          /\ IF page_data.kind = "data"
             THEN /\ scraped_data' =
                        Append(scraped_data,
                               [url |-> page_data.url,
                                content_length |-> page_data.content_length,
                                internal_links |-> page_data.internal_links])
                  /\ urls_to_visit' =
                        enqueue(urls_to_visit, page_data.internal_links, visited_urls)
             ELSE UNCHANGED <<scraped_data, urls_to_visit>>
          /\ wpc' = IF page_data.kind = "raise" THEN "finally" ELSE "sleep"
    /\ UNCHANGED <<pc, start_url, visited_urls, returned, calls, call_base,
                   last_page, last_event, undelayed, is_scraping, start_button,
                   stop_button, workers, pending, temp_queue, temp_visited,
                   page_count, total_pages, in_flight, stop_seen, late_fetch>>

\* second pass, time.sleep(Config.DELAY_BETWEEN_REQUESTS): lines 1143-1145
scrape_sleep ==
    /\ wpc = "sleep"
    /\ wpc' = "scrape"
    /\ last_event' = "sleep"
    /\ UNCHANGED <<pc, start_url, urls_to_visit, visited_urls, scraped_data,
                   returned, calls, call_base, last_page, undelayed, is_scraping,
                   start_button, stop_button, workers, pending, temp_queue,
                   temp_visited, page_count, total_pages, in_flight, stop_seen,
                   late_fetch>>

\* the second pass's loop ends: line 1115
scrape_exit ==
    /\ wpc = "scrape"
    /\ ~ScrapeCond
    /\ wpc' = "exited"
    /\ UNCHANGED <<crawlVars, is_scraping, start_button, stop_button, workers,
                   pending, temp_queue, temp_visited, page_count, total_pages,
                   in_flight, stop_seen, late_fetch>>

\* ProgressScraper.scrape_website returns: lines 1147-1152
scrape_return ==
    /\ wpc = "exited"
    /\ returned' = IF ~is_scraping THEN <<>> ELSE scraped_data
    /\ wpc' = "after"
    /\ UNCHANGED <<pc, start_url, urls_to_visit, visited_urls, scraped_data, calls,
                   call_base, last_page, last_event, undelayed, is_scraping,
                   start_button, stop_button, workers, pending, temp_queue,
                   temp_visited, page_count, total_pages, in_flight, stop_seen,
                   late_fetch>>

\* scrape_worker after the crawl: lines 1157-1309 (processing, saving and the
\* except handler all lead to the finally block)
worker_rest ==
    /\ wpc = "after"
    /\ wpc' = "finally"
    /\ UNCHANGED <<crawlVars, is_scraping, start_button, stop_button, workers,
                   pending, temp_queue, temp_visited, page_count, total_pages,
                   in_flight, stop_seen, late_fetch>>

\* scrape_worker's finally block, lines 1312-1313
worker_finally ==
    /\ wpc = "finally"
    /\ is_scraping' = FALSE
    /\ start_button' = "normal"
    /\ wpc' = "idle"
    /\ pending' = pending + 1
    /\ UNCHANGED <<crawlVars, stop_button, workers, temp_queue, temp_visited,
                   page_count, total_pages, in_flight, stop_seen, late_fetch>>

\* scrape_worker's finally block, line 1314
worker_finally_stop ==
    /\ pending > 0
    /\ stop_button' = "disabled"
    /\ pending' = pending - 1
    /\ UNCHANGED <<crawlVars, is_scraping, start_button, wpc, workers, temp_queue,
                   temp_visited, page_count, total_pages, in_flight, stop_seen,
                   late_fetch>>

GuiNext ==
    \/ \E valid \in BOOLEAN : start_scraping(valid) /\ UNCHANGED <<resolverVars, pipeVars>>
    \/ stop_scraping /\ UNCHANGED <<resolverVars, pipeVars>>
    \/ count_begin /\ UNCHANGED <<resolverVars, pipeVars>>
    \/ \E page \in Pages : count_fetched(page) /\ UNCHANGED <<resolverVars, pipeVars>>
    \/ count_exit /\ UNCHANGED <<resolverVars, pipeVars>>
    \/ scrape_begin /\ UNCHANGED <<resolverVars, pipeVars>>
    \/ \E page \in Pages : scrape_fetched(page) /\ UNCHANGED <<resolverVars, pipeVars>>
    \/ scrape_sleep /\ UNCHANGED <<resolverVars, pipeVars>>
    \/ scrape_exit /\ UNCHANGED <<resolverVars, pipeVars>>
    \/ scrape_return /\ UNCHANGED <<resolverVars, pipeVars>>
    \/ worker_rest /\ UNCHANGED <<resolverVars, pipeVars>>
    \/ worker_finally /\ UNCHANGED <<resolverVars, pipeVars>>
    \/ worker_finally_stop /\ UNCHANGED <<resolverVars, pipeVars>>

GuiSpec == Init /\ [][GuiNext]_vars

\* the link resolver on its own, applied to every input of ResolverInputs
ResolverStart ==
    /\ CrawlInit
    /\ GuiInit
    /\ PipeInit
    /\ r_in \in ResolverInputs
    /\ r_out = NotResolved

ResolverNext == resolve /\ UNCHANGED <<crawlVars, guiVars, pipeVars>>

ResolverSpec == ResolverStart /\ [][ResolverNext]_vars

\* C7: between any two successive page fetches of a crawl the politeness
\* sleep is executed (WebScraper.scrape_website and the GUI's ProgressScraper).
C7_PolitenessDelay == ~undelayed

\* C9: once stop_scraping has cancelled a GUI crawl, the crawler begins no
\* further fetch after the step in progress.
C9_Cancellation == ~late_fetch

-----------------------------------------------------------------------------
(* Claims about WebScraper.scrape_website                                   *)

\* C1: the number of PageRecords in results, and in the returned sequence,
\* never exceeds MAX_PAGES.
C1_PageBudget ==
    /\ Len(scraped_data) <= MAX_PAGES
    /\ Len(returned) <= MAX_PAGES

\* the budget, not the frontier, ended a crawl in which a page was discarded
C1_Witness ==
    /\ pc = "done"
    /\ Len(returned) = MAX_PAGES
    /\ urls_to_visit # <<>>
    /\ Cardinality(visited_urls) > Len(scraped_data) - call_base

\* C2: the sequence returned by scrape_website holds no two PageRecords with
\* the same url, for any sequence of calls made on a scraper.
C2_UniqueUrls ==
    \A i, j \in DOMAIN returned : i # j => returned[i].url # returned[j].url

\* C3: every call starts with results = [], so the sequence a call returns
\* holds exactly the pages recorded during that call.
C3_FreshCrawlState ==
    /\ pc = "loop" => call_base = 0
    /\ pc = "done" =>
          returned = SubSeq(scraped_data, call_base + 1, Len(scraped_data))

\* the URLs within k links of start_url, counted through recorded pages
RECURSIVE Within(_)
Within(k) ==
    IF k = 0 THEN {start_url}
    ELSE Within(k - 1) \cup
         UNION { Range(scraped_data[i].internal_links) :
                 i \in {n \in DOMAIN scraped_data :
                          scraped_data[n].url \in Within(k - 1)} }

\* link distance of a URL from start_url (MAX_PAGES + 1 when out of reach)
Distance(u) ==
    IF \E k \in 0..MAX_PAGES : u \in Within(k)
    THEN CHOOSE k \in 0..MAX_PAGES :
            u \in Within(k) /\ \A m \in 0..MAX_PAGES : u \in Within(m) => k <= m
    ELSE MAX_PAGES + 1

\* C4: breadth-first level order: of two recorded pages within reach of
\* startUrl, the one at the smaller link distance comes first in results.
C4_LevelOrder ==
    pc \in {"loop", "sleep", "done"} =>
        \A i, j \in DOMAIN scraped_data :
            /\ Distance(scraped_data[j].url) <= MAX_PAGES
            /\ Distance(scraped_data[i].url) < Distance(scraped_data[j].url)
            => i < j

\* C5: a fetched page is appended to results iff its text has at least
\* MIN_CONTENT_LENGTH characters; every record in results has that length.
C5_ContentFilter ==
    /\ \A i \in DOMAIN scraped_data :
          scraped_data[i].content_length >= MIN_CONTENT_LENGTH
    /\ (last_page.fetched /\ last_page.soup) =>
          (last_page.kind = "data" <=> last_page.content_length >= MIN_CONTENT_LENGTH)

\* C6: a step whose fetch or processing fails does not raise: it pops one
\* URL, marks it visited, leaves results unchanged and the loop goes on.
C6_FailureResilience ==
    [][ (last_page'.fetched /\ ~last_page.fetched /\ last_page'.kind # "data")
        => /\ pc' = "sleep"
           /\ scraped_data' = scraped_data
           /\ Head(urls_to_visit) \in visited_urls'
           /\ urls_to_visit' = Tail(urls_to_visit) ]_vars

\* an href without its query string and fragment
Stripped(h) == [h EXCEPT !.query = Empty, !.fragment = Empty]

\* the href that spells out an absolute URL
AsHref(u) == Href(FALSE, u.scheme, u.netloc, u.path, u.query, u.fragment)

\* C10: links that differ only in query string and/or fragment resolve to
\* the same canonical URL (each anchor resolves as its href without query
\* and fragment does), and a canonical URL resolves to itself.
C10_Canonicalization ==
    (r_out.done /\ ~r_out.raised) =>
        /\ r_out.links =
              UNION { resolve_link(r_in.base, Stripped(h), r_in.visited) :
                      h \in r_in.hrefs }
        /\ \A u \in r_out.links :
              resolve_link(r_in.base, AsHref(u), r_in.visited) = {u}

\* C8: every call ends, and when it returns the frontier is empty or results
\* holds MAX_PAGES records; only recorded pages add to the frontier.
C8_Termination ==
    /\ [](pc = "done" => (urls_to_visit = <<>> \/ Len(scraped_data) >= MAX_PAGES))
    /\ [](Cardinality(visited_urls) + Len(urls_to_visit)
            <= 1 + (Len(scraped_data) - call_base) * MaxAnchors)
    /\ (pc \in {"loop", "sleep"}) ~> (pc \in {"done", "raised"})

\* a call returned on an empty frontier, below the budget, after a discard
C8_Witness ==
    /\ pc = "done"
    /\ urls_to_visit = <<>>
    /\ Len(scraped_data) < MAX_PAGES
    /\ Cardinality(visited_urls) > 1

-----------------------------------------------------------------------------
(* Claims about the domain of a crawl                                       *)

\* the URLs recorded by the scrape_website call in progress
RecordedUrls ==
    {scraped_data[i].url : i \in (call_base + 1)..Len(scraped_data)}

\* C11: every URL in the frontier, fetched (visited) or recorded during a
\* crawl has a scheme and a host, and its host equals the host of start_url.
C11_DomainScoping ==
    pc \in {"loop", "sleep", "done"} =>
        \A u \in Range(urls_to_visit) \cup visited_urls \cup RecordedUrls :
            /\ u.scheme # Empty
            /\ u.netloc # Empty
            /\ u.netloc = start_url.netloc

\* a recorded page's links were queued and a queued link was fetched
C11_Witness ==
    /\ pc = "sleep"
    /\ Cardinality(visited_urls) >= 2
    /\ Cardinality(RecordedUrls) >= 1
    /\ urls_to_visit # <<>>

-----------------------------------------------------------------------------
(* KnowledgeBaseFormatter (knowledge_base_formatter.py). Python dicts are    *)
(* functions on their key sets; texts are sequences of characters;           *)
(* relevance scores are counted in tenths (0.5 is 5).                        *)

\* number of entries in the list handed to the formatter
MaxEntries == 3

\* dict.get(k, d)
Get(e, k, d) == IF k \in DOMAIN e THEN e[k] ELSE d

\* d[k] = v
Put(d, k, v) == [x \in DOMAIN d \cup {k} |-> IF x = k THEN v ELSE d[x]]

\* the default of entry.get('relevance_score', 0.5), in tenths
DefaultRelevance == 5

\* list.sort(key=lambda x: x['relevance_score']), ascending: the mistaken order
RECURSIVE sort_ascending(_)
sort_ascending(items) ==
    IF items = <<>> THEN <<>>
    ELSE LET sorted == sort_ascending(SubSeq(items, 1, Len(items) - 1))
             x == items[Len(items)]
             k == Cardinality({i \in DOMAIN sorted :
                                 sorted[i].relevance_score <= x.relevance_score})
         IN SubSeq(sorted, 1, k) \o <<x>> \o SubSeq(sorted, k + 1, Len(sorted))

\* list.sort(key=lambda x: x['relevance_score'], reverse=True): each item is
\* placed behind the items whose score is not smaller (the sort is stable)
RECURSIVE sort_by_relevance(_)
sort_by_relevance(items) ==
    IF items = <<>> THEN <<>>
    ELSE LET sorted == sort_by_relevance(SubSeq(items, 1, Len(items) - 1))
             x == items[Len(items)]
             k == Cardinality({i \in DOMAIN sorted :
                                 sorted[i].relevance_score >= x.relevance_score})
         IN SubSeq(sorted, 1, k) \o <<x>> \o SubSeq(sorted, k + 1, Len(sorted))

\* the {'url', 'title', 'relevance_score'} item the indexes hold for an entry
index_item(entry) ==
    [url |-> Get(entry, "url", Empty), title |-> Get(entry, "title", Empty),
     relevance_score |-> Get(entry, "relevance_score", DefaultRelevance)]

\* the loop of create_knowledge_base_structure over content_type: lines 27-29
RECURSIVE tally_content_types(_)
tally_content_types(entries) ==
    IF entries = <<>> THEN <<>>
    ELSE LET content_types == tally_content_types(SubSeq(entries, 1, Len(entries) - 1))
             content_type == Get(entries[Len(entries)], "content_type", "other")
         IN Put(content_types, content_type, Get(content_types, content_type, 0) + 1)

\* the number of entries that have a FAQ (not the number of FAQs)
count_faq_entries(entries) ==
    Cardinality({i \in DOMAIN entries : Get(entries[i], "faq_questions", <<>>) # <<>>})

\* total_faqs += len(entry.get('faq_questions', [])): line 31
RECURSIVE count_faqs(_)
count_faqs(entries) ==
    IF entries = <<>> THEN 0
    ELSE count_faqs(Tail(entries)) + Len(Get(Head(entries), "faq_questions", <<>>))

\* total_keywords.update(entry.get('keywords', [])): line 32
collect_keywords(entries) ==
    UNION {Range(Get(entries[i], "keywords", <<>>)) : i \in DOMAIN entries}

\* by_url of _create_search_index: lines 70-75 (a later entry overwrites)
RECURSIVE index_by_url(_)
index_by_url(entries) ==
    IF entries = <<>> THEN <<>>
    ELSE LET entry == entries[Len(entries)] IN
         Put(index_by_url(SubSeq(entries, 1, Len(entries) - 1)),
             Get(entry, "url", Empty),
             [title |-> Get(entry, "title", Empty),
              content_type |-> Get(entry, "content_type", "other"),
              relevance_score |-> Get(entry, "relevance_score", DefaultRelevance),
              summary |-> Get(entry, "summary", Empty)])

\* by_title of _create_search_index: lines 78-79
RECURSIVE index_by_title(_)
index_by_title(entries) ==
    IF entries = <<>> THEN <<>>
    ELSE LET entry == entries[Len(entries)]
             before == index_by_title(SubSeq(entries, 1, Len(entries) - 1))
             title == Get(entry, "title", Empty)
         IN IF title # Empty
            THEN Put(before, Lower(title), Get(entry, "url", Empty))
            ELSE before

\* by_content_type whose bucket holds the last entry of its type only
RECURSIVE index_by_last_of_type(_)
index_by_last_of_type(entries) ==
    IF entries = <<>> THEN <<>>
    ELSE LET entry == entries[Len(entries)]
             before == index_by_last_of_type(SubSeq(entries, 1, Len(entries) - 1))
             content_type == Get(entry, "content_type", "other")
         IN Put(before, content_type, <<index_item(entry)>>)

\* by_content_type of _create_search_index: lines 82-88 (buckets are not sorted)
RECURSIVE index_by_content_type(_)
index_by_content_type(entries) ==
    IF entries = <<>> THEN <<>>
    ELSE LET entry == entries[Len(entries)]
             before == index_by_content_type(SubSeq(entries, 1, Len(entries) - 1))
             content_type == Get(entry, "content_type", "other")
         IN Put(before, content_type,
                Append(Get(before, content_type, <<>>), index_item(entry)))

\* KnowledgeBaseFormatter._create_search_index
_create_search_index(entries) ==
    [by_url |-> index_by_url(entries),
     by_title |-> index_by_title(entries),
     by_content_type |-> index_by_content_type(entries),
     by_relevance |-> sort_by_relevance([i \in DOMAIN entries |-> index_item(entries[i])])]

\* the faq_entry dicts of one entry, in the entry's order: lines 107-116
faq_entries(entry) ==
    LET faqs == Get(entry, "faq_questions", <<>>) IN
    [i \in DOMAIN faqs |->
        [question |-> Get(faqs[i], "question", Empty),
         answer |-> Get(faqs[i], "answer", Empty),
         source_url |-> Get(entry, "url", Empty),
         source_title |-> Get(entry, "title", Empty),
         relevance_score |-> Get(entry, "relevance_score", DefaultRelevance)]]

\* all_faqs before the sort: lines 104-116
RECURSIVE all_faqs(_)
all_faqs(entries) ==
    IF entries = <<>> THEN <<>>
    ELSE faq_entries(Head(entries)) \o all_faqs(Tail(entries))

\* KnowledgeBaseFormatter._create_faq_section
_create_faq_section(entries) == sort_by_relevance(all_faqs(entries))

\* the items one entry appends to the buckets of the labels it lists under
\* field ('key_topics' or 'keywords'): a bucket gets one item per occurrence
RECURSIVE append_labels(_, _, _)
append_labels(index, labels, item) ==
    IF labels = <<>> THEN index
    ELSE append_labels(Put(index, Head(labels),
                           Append(Get(index, Head(labels), <<>>), item)),
                       Tail(labels), item)

\* the unsorted index over field: lines 127-141 and 153-167
RECURSIVE build_index(_, _)
build_index(entries, field) ==
    IF entries = <<>> THEN <<>>
    ELSE LET entry == entries[Len(entries)] IN
         append_labels(build_index(SubSeq(entries, 1, Len(entries) - 1), field),
                       Get(entry, field, <<>>), index_item(entry))

\* each bucket sorted by relevance: lines 144-145 and 170-171
sort_buckets(index) == [k \in DOMAIN index |-> sort_by_relevance(index[k])]

\* KnowledgeBaseFormatter._create_topics_index
_create_topics_index(entries) == sort_buckets(build_index(entries, "key_topics"))

\* KnowledgeBaseFormatter._create_keywords_index
_create_keywords_index(entries) == sort_buckets(build_index(entries, "keywords"))

\* the dict returned by create_knowledge_base_structure (website_url,
\* created_at and version do not depend on the entries)
knowledge_base_of(entries) ==
    [metadata |-> [total_pages |-> Len(entries),
                   total_faqs |-> count_faqs(entries),
                   total_keywords |-> Cardinality(collect_keywords(entries)),
                   content_types |-> tally_content_types(entries)],
     pages |-> entries,
     search_index |-> _create_search_index(entries),
     faq_section |-> _create_faq_section(entries),
     topics_index |-> _create_topics_index(entries),
     keywords_index |-> _create_keywords_index(entries)]

DigitChars == <<"0","1","2","3","4","5","6","7","8","9">>

\* str(n) for a natural number n
RECURSIVE str_int(_)
str_int(n) ==
    IF n < 10 THEN <<DigitChars[n + 1]>>
    ELSE str_int(n \div 10) \o <<DigitChars[(n % 10) + 1]>>

\* str.replace(old, new) for one-character old and new
replace(text, old, new) ==
    [i \in 1..Len(text) |-> IF text[i] = old THEN new ELSE text[i]]

\* f"faq_{i+1}" for the 0-based index i of enumerate
faq_intent_name(i) == <<"f","a","q","_">> \o str_int(i + 1)

\* f"page_{page['url'].replace('/', '_').replace(':', '_')}"
page_intent_name(url) ==
    <<"p","a","g","e","_">> \o replace(replace(url, "/", "_"), ":", "_")

\* the first loop of create_chatbot_ready_format: lines 204-213
RECURSIVE add_faq_intents(_, _)
add_faq_intents(data, faq_section) ==
    IF faq_section = <<>> THEN data
    ELSE LET before == add_faq_intents(data, SubSeq(faq_section, 1, Len(faq_section) - 1))
             faq == faq_section[Len(faq_section)]
             intent_name == faq_intent_name(Len(faq_section) - 1)
         IN [before EXCEPT
               !.intents = Append(@, intent_name),
               !.responses = Put(@, intent_name, faq.answer),
               !.training_data = Append(@, [intent |-> intent_name,
                                            text |-> faq.question,
                                            response |-> faq.answer])]

\* the second loop without its test of the summary: a pair for every page
RECURSIVE add_all_page_intents(_, _)
add_all_page_intents(data, pages) ==
    IF pages = <<>> THEN data
    ELSE LET before == add_all_page_intents(data, SubSeq(pages, 1, Len(pages) - 1))
             page == pages[Len(pages)]
             intent_name == page_intent_name(page.url)
         IN [before EXCEPT
               !.intents = Append(@, intent_name),
               !.responses = Put(@, intent_name, Get(page, "summary", Empty)),
               !.training_data = Append(@, [intent |-> intent_name,
                                            text |-> page.title,
                                            response |-> Get(page, "summary", Empty)])]

\* the second loop of create_chatbot_ready_format: lines 216-226
RECURSIVE add_page_intents(_, _)
add_page_intents(data, pages) ==
    IF pages = <<>> THEN data
    ELSE LET before == add_page_intents(data, SubSeq(pages, 1, Len(pages) - 1))
             page == pages[Len(pages)]
             intent_name == page_intent_name(page.url)
         IN IF Get(page, "summary", Empty) # Empty
            THEN [before EXCEPT
                    !.intents = Append(@, intent_name),
                    !.responses = Put(@, intent_name, page.summary),
                    !.training_data = Append(@, [intent |-> intent_name,
                                                 text |-> page.title,
                                                 response |-> page.summary])]
            ELSE before

\* the dict returned by create_chatbot_ready_format
chatbot_data_of(kb) ==
    add_page_intents(add_faq_intents(EmptyChatbotData, kb.faq_section), kb.pages)

-----------------------------------------------------------------------------
(* The entry lists handed to the formatter                                  *)

\* page URLs as the scraper records them (strings)
KbUrls ==
    << geturl(Url(Http, HostX, <<"/","a","/","b">>, Empty, Empty)),
       geturl(Url(Http, HostX, <<"/","a","_","b">>, Empty, Empty)),
       geturl(Url(Http, HostX, PathC, Empty, Empty)) >>

\* page titles: the first two differ in case only, the third page has none
KbTitles == << <<"T","1">>, <<"t","1">>, Empty >>

Faq(q, a) == [question |-> q, answer |-> a]

\* an entry as process_content_for_knowledge_base returns it when the model
\* answered with the whole structure; u is the page, r the relevance score
FullEntry(u, r) ==
    [url |-> KbUrls[u], title |-> KbTitles[u],
     summary |-> <<"s", DigitChars[u + 1]>>,
     key_topics |-> << <<"t1", "t2">>, <<"t2">>, <<"t1">> >>[u],
     faq_questions |-> << <<Faq(<<"q","1">>, <<"a","1">>), Faq(<<"q","2">>, <<"a","2">>)>>,
                          <<Faq(<<"q","3">>, <<"a","3">>)>>,
                          <<Faq(<<"q","1">>, <<"a","1">>)>> >>[u],
     keywords |-> << <<"k1", "k2">>, <<"k2", "k3">>, <<"k1", "k1">> >>[u],
     content_type |-> <<"article", "article", "help">>[u],
     relevance_score |-> r]

\* the model answered "{}": only the metadata of lines 127-129 is present
BareEntry(u) == [url |-> KbUrls[u], title |-> KbTitles[u]]

\* an entry with an empty summary, no topics and keywords, and one FAQ of its
\* own (the model answered with little, as the basic format of main.py:145-160)
PlainEntry(u) ==
    [url |-> KbUrls[u], title |-> KbTitles[u], summary |-> Empty,
     key_topics |-> <<>>,
     faq_questions |-> <<Faq(<<"q", DigitChars[u + 4]>>, <<"a", DigitChars[u + 4]>>)>>,
     keywords |-> <<>>,
     content_type |-> "other", relevance_score |-> 5]

Entries ==
    {FullEntry(u, r) : u \in 1..3, r \in {2, 9}}
    \cup {BareEntry(u) : u \in 1..2}
    \cup {PlainEntry(u) : u \in 2..3}

\* the lists of at most MaxEntries entries
EntryLists == UNION {[1..n -> Entries] : n \in 0..MaxEntries}

-----------------------------------------------------------------------------
(* The caller of the formatter: main.py lines 162-174                       *)

\* formatter.create_knowledge_base_structure(processed_data, url)
create_knowledge_base_structure ==
    /\ fpc = "entries"
    /\ knowledge_base' = knowledge_base_of(processed_data)
    /\ fpc' = "kb"
    /\ UNCHANGED <<processed_data, chatbot_data, chatbot_file, sql_statements, save_log>>

\* formatter.save_knowledge_base(knowledge_base, filename): lines 175-191;
\* io_ok: open() and json.dump succeed, else the OSError is logged and raised
save_knowledge_base(io_ok) ==
    /\ fpc = "kb"
    /\ save_log' = [op |-> "knowledge_base", attempts |-> 1, io_failed |-> ~io_ok,
                    raised |-> ~io_ok, success_reported |-> io_ok]
    /\ fpc' = IF io_ok THEN "kb_saved" ELSE "failed"
    /\ UNCHANGED <<processed_data, knowledge_base, chatbot_data, chatbot_file,
                   sql_statements>>

\* formatter.create_chatbot_ready_format(knowledge_base)
create_chatbot_ready_format ==
    /\ fpc = "kb_saved"
    /\ chatbot_data' = chatbot_data_of(knowledge_base)
    /\ fpc' = "chatbot"
    /\ UNCHANGED <<processed_data, knowledge_base, chatbot_file, sql_statements,
                   save_log>>

\* formatter.save_chatbot_format(chatbot_data): lines 230-243
save_chatbot_format(io_ok) ==
    /\ fpc = "chatbot"
    /\ save_log' = [op |-> "chatbot", attempts |-> 1, io_failed |-> ~io_ok,
                    raised |-> ~io_ok, success_reported |-> io_ok]
    /\ chatbot_file' = IF io_ok THEN [exists |-> TRUE, data |-> chatbot_data]
                       ELSE chatbot_file
    /\ fpc' = IF io_ok THEN "chatbot_saved" ELSE "failed"
    /\ UNCHANGED <<processed_data, knowledge_base, chatbot_data, sql_statements>>

-----------------------------------------------------------------------------
(* SimpleSQLConverter (simple_sql_converter.py)                             *)

\* the characters str.strip() removes
Whitespace == {" ", "\n", "\t", "\r"}

\* str.strip()
RECURSIVE strip(_)
strip(text) ==
    IF text = <<>> THEN text
    ELSE IF Head(text) \in Whitespace THEN strip(Tail(text))
    ELSE IF text[Len(text)] \in Whitespace THEN strip(SubSeq(text, 1, Len(text) - 1))
    ELSE text

\* "sub in text" for strings
Contains(text, sub) ==
    \E i \in 1..(Len(text) - Len(sub) + 1) : SubSeq(text, i, i + Len(sub) - 1) = sub

\* classify_category_simple: line 35
service_keywords ==
    { <<"s","e","r","v","i","c","e">>,
      <<"o","f","f","e","r">>,
      <<"p","r","o","v","i","d","e">>,
      <<"a","v","a","i","l","a","b","l","e">>,
      <<"w","h","a","t"," ","d","o"," ","y","o","u">>,
      <<"w","h","a","t"," ","c","a","n"," ","y","o","u">>,
      <<"c","a","p","a","b","i","l","i","t","i","e","s">> }

\* classify_category_simple: line 40
pricing_keywords ==
    { <<"p","r","i","c","e">>,
      <<"c","o","s","t">>,
      <<"f","e","e">>,
      <<"c","h","a","r","g","e">>,
      <<"h","o","w"," ","m","u","c","h">>,
      <<"e","x","p","e","n","s","i","v","e">>,
      <<"c","h","e","a","p">>,
      <<"b","u","d","g","e","t">> }

\* classify_category_simple: line 45
contact_keywords ==
    { <<"c","o","n","t","a","c","t">>,
      <<"p","h","o","n","e">>,
      <<"e","m","a","i","l">>,
      <<"a","d","d","r","e","s","s">>,
      <<"l","o","c","a","t","i","o","n">>,
      <<"w","h","e","r","e">>,
      <<"h","o","w"," ","t","o"," ","r","e","a","c","h">>,
      <<"c","a","l","l">> }

\* classify_category_simple: line 50
support_keywords ==
    { <<"h","e","l","p">>,
      <<"s","u","p","p","o","r","t">>,
      <<"p","r","o","b","l","e","m">>,
      <<"i","s","s","u","e">>,
      <<"t","r","o","u","b","l","e","s","h","o","o","t">>,
      <<"f","i","x">>,
      <<"e","r","r","o","r">>,
      <<"n","o","t"," ","w","o","r","k","i","n","g">> }

\* classify_category_simple: line 55
policy_keywords ==
    { <<"p","o","l","i","c","y">>,
      <<"t","e","r","m","s">>,
      <<"c","o","n","d","i","t","i","o","n">>,
      <<"r","u","l","e">>,
      <<"p","r","o","c","e","d","u","r","e">>,
      <<"p","r","o","c","e","s","s">>,
      <<"h","o","w"," ","t","o">>,
      <<"r","e","q","u","i","r","e","m","e","n","t">> }

\* SimpleSQLConverter.classify_category_simple(question, answer)
classify_category_simple(question, answer) ==
    LET question_lower == Lower(question)
        answer_lower == Lower(answer)
        either(keywords) ==
            \E keyword \in keywords :
                Contains(question_lower, keyword) \/ Contains(answer_lower, keyword)
    IN IF \E keyword \in service_keywords : Contains(question_lower, keyword)
       THEN "services"
       ELSE IF either(pricing_keywords) THEN "pricing"
       ELSE IF either(contact_keywords) THEN "contact"
       ELSE IF either(support_keywords) THEN "support"
       ELSE IF either(policy_keywords) THEN "policies"
       ELSE "general"

\* SimpleSQLConverter.escape_sql_string(text): text.replace("'", "''")
RECURSIVE escape_sql_string(_)
escape_sql_string(text) ==
    IF text = <<>> THEN <<>>
    ELSE (IF Head(text) = "'" THEN <<"'", "'">> ELSE <<Head(text)>>)
         \o escape_sql_string(Tail(text))

\* the business id typed by the user
BusinessId == <<"b","1">>

\* SimpleSQLConverter.generate_sql_inserts(chatbot_data, business_id): each
\* statement is given by the values interpolated into its text (line 94)
RECURSIVE generate_sql_inserts(_, _)
generate_sql_inserts(training_data, business_id) ==
    IF training_data = <<>> THEN <<>>
    ELSE LET item == Head(training_data)
             question == strip(Get(item, "text", Empty))
             answer == strip(Get(item, "response", Empty))
             rest == generate_sql_inserts(Tail(training_data), business_id)
         IN IF question = Empty \/ answer = Empty THEN rest
            ELSE << [business_id |-> business_id,
                     question |-> escape_sql_string(question),
                     answer |-> escape_sql_string(answer),
                     category |-> classify_category_simple(question, answer)] >>
                 \o rest

\* SimpleSQLConverter.convert(chatbot_file, business_id): lines 118-144, with
\* load_chatbot_data, generate_sql_inserts and save_sql_file (lines 103-116);
\* io_ok: writing the SQL file succeeds, else save_sql_file prints the error
\* and returns, and convert goes on to print "Conversion completed!"
convert(io_ok) ==
    /\ fpc \in {"chatbot_saved", "failed"}
    /\ fpc' = "converted"
    /\ IF ~chatbot_file.exists
       THEN UNCHANGED <<sql_statements, save_log>>
       ELSE LET statements ==
                    generate_sql_inserts(chatbot_file.data.training_data, BusinessId)
            IN /\ sql_statements' = statements
               /\ IF statements = <<>>
                  THEN UNCHANGED save_log
                  ELSE save_log' = [op |-> "sql", attempts |-> 1,
                                    io_failed |-> ~io_ok, raised |-> FALSE,
                                    success_reported |-> TRUE]
    /\ UNCHANGED <<processed_data, knowledge_base, chatbot_data, chatbot_file>>

\* the formatter and the savers applied to every list of EntryLists
FormatStart ==
    /\ CrawlInit
    /\ ResolverInit
    /\ GuiInit
    /\ EnrichInit
    /\ FetchInit
    /\ SqlInit
    /\ processed_data \in EntryLists
    /\ knowledge_base = NoKnowledgeBase
    /\ chatbot_data = EmptyChatbotData
    /\ fpc = "entries"
    /\ chatbot_file = NoFile
    /\ sql_statements = <<>>
    /\ save_log = NoSave

FormatNext ==
    \/ create_knowledge_base_structure /\ UNCHANGED <<crawlVars, resolverVars, guiVars, enrichVars, fetchVars, sqlVars>>
    \/ \E io_ok \in BOOLEAN : save_knowledge_base(io_ok) /\ UNCHANGED <<crawlVars, resolverVars, guiVars, enrichVars, fetchVars, sqlVars>>
    \/ create_chatbot_ready_format /\ UNCHANGED <<crawlVars, resolverVars, guiVars, enrichVars, fetchVars, sqlVars>>
    \/ \E io_ok \in BOOLEAN : save_chatbot_format(io_ok) /\ UNCHANGED <<crawlVars, resolverVars, guiVars, enrichVars, fetchVars, sqlVars>>
    \/ \E io_ok \in BOOLEAN : convert(io_ok) /\ UNCHANGED <<crawlVars, resolverVars, guiVars, enrichVars, fetchVars, sqlVars>>

FormatSpec == FormatStart /\ [][FormatNext]_vars

-----------------------------------------------------------------------------
(* Claims about the knowledge base document                                 *)

\* the relevance scores of a list of items
Scores(items) == [i \in DOMAIN items |-> items[i].relevance_score]

\* sorted is the stable descending sort by relevance of items: its scores never
\* increase, and the items of any one score are those of items, in their order
StableDescending(sorted, items) ==
    /\ Len(sorted) = Len(items)
    /\ \A i, j \in DOMAIN sorted :
          i < j => sorted[i].relevance_score >= sorted[j].relevance_score
    /\ \A v \in Range(Scores(items)) \cup Range(Scores(sorted)) :
          SelectSeq(sorted, LAMBDA x : x.relevance_score = v)
            = SelectSeq(items, LAMBDA x : x.relevance_score = v)

\* the knowledge base has been built from processed_data
KbBuilt == fpc \in {"kb", "kb_saved", "chatbot", "chatbot_saved", "failed", "converted"}

\* C12: after create_knowledge_base_structure, by_relevance, faq_section and
\* every bucket of topics_index and keywords_index is the stable descending
\* sort by relevance of its items in insertion order; entry scores
\* [0.2, 0.9, 0.5] come out as [0.9, 0.5, 0.2].
C12_RelevanceOrdering ==
    KbBuilt =>
        LET entries == processed_data
            items == [i \in DOMAIN entries |-> index_item(entries[i])]
            topics == build_index(entries, "key_topics")
            keywords == build_index(entries, "keywords")
        IN /\ StableDescending(knowledge_base.search_index.by_relevance, items)
           /\ StableDescending(knowledge_base.faq_section, all_faqs(entries))
           /\ DOMAIN knowledge_base.topics_index = DOMAIN topics
           /\ \A t \in DOMAIN topics :
                 StableDescending(knowledge_base.topics_index[t], topics[t])
           /\ DOMAIN knowledge_base.keywords_index = DOMAIN keywords
           /\ \A k \in DOMAIN keywords :
                 StableDescending(knowledge_base.keywords_index[k], keywords[k])
           /\ Scores(items) = <<2, 9, 5>> =>
                 Scores(knowledge_base.search_index.by_relevance) = <<9, 5, 2>>

\* entries scored [0.2, 0.9, 0.5], each with a FAQ, and two of them under one topic
C12_Witness ==
    /\ fpc = "kb"
    /\ Scores([i \in DOMAIN processed_data |-> index_item(processed_data[i])])
          = <<2, 9, 5>>
    /\ Scores(knowledge_base.faq_section) = <<9, 5, 2>>
    /\ \E t \in DOMAIN knowledge_base.topics_index :
          Scores(knowledge_base.topics_index[t]) = <<9, 2>>

\* C13: metadata.total_pages is the number of entries, content_types maps each
\* content type to the number of entries of that type (a missing type counts
\* as 'other'), total_faqs is the sum of the FAQ list lengths, total_keywords
\* the number of distinct keywords; pages keeps the entries in input order.
C13_AggregateMetadata ==
    KbBuilt =>
        LET entries == processed_data
            type_of(i) == IF "content_type" \in DOMAIN entries[i]
                          THEN entries[i].content_type ELSE "other"
            faqs_of(i) == IF "faq_questions" \in DOMAIN entries[i]
                          THEN entries[i].faq_questions ELSE <<>>
            keywords_of(i) == IF "keywords" \in DOMAIN entries[i]
                              THEN entries[i].keywords ELSE <<>>
            metadata == knowledge_base.metadata
        IN /\ metadata.total_pages = Len(entries)
           /\ DOMAIN metadata.content_types = {type_of(i) : i \in DOMAIN entries}
           /\ \A t \in DOMAIN metadata.content_types :
                 metadata.content_types[t]
                    = Cardinality({i \in DOMAIN entries : type_of(i) = t})
           /\ metadata.total_faqs
                 = Cardinality({<<i, j>> \in (DOMAIN entries) \X (1..2) :
                                   j \in DOMAIN faqs_of(i)})
           /\ \A i \in DOMAIN entries : Len(faqs_of(i)) <= 2
           /\ metadata.total_keywords
                 = Cardinality({k \in {"k1", "k2", "k3"} :
                       \E i \in DOMAIN entries : k \in Range(keywords_of(i))})
           /\ \A i \in DOMAIN entries : Range(keywords_of(i)) \subseteq {"k1", "k2", "k3"}
           /\ knowledge_base.pages = entries

\* an entry without a content type next to entries of other types, more FAQs
\* than entries that have any, and a keyword listed more than once
C13_Witness ==
    /\ fpc = "kb"
    /\ Len(processed_data) = MaxEntries
    /\ \E i \in DOMAIN processed_data : "content_type" \notin DOMAIN processed_data[i]
    /\ Cardinality(DOMAIN knowledge_base.metadata.content_types) >= 2
    /\ knowledge_base.metadata.total_faqs > count_faq_entries(processed_data)
    /\ knowledge_base.metadata.total_keywords = 2
    /\ \E i \in DOMAIN processed_data :
          Get(processed_data[i], "keywords", <<>>) = <<"k1", "k1">>

-----------------------------------------------------------------------------
(* Claims about the chatbot format                                          *)

\* create_chatbot_ready_format has run on the knowledge base
ChatbotBuilt == fpc \in {"chatbot", "chatbot_saved"}

\* the page has a summary that is not empty
HasSummary(page) == "summary" \in DOMAIN page /\ page.summary # <<>>

\* C14: training_data holds one pair per faq_section element, the i-th with
\* intent 'faq_i', text = question, response = answer, followed by one pair
\* per page with a non-empty summary, in page order, with text = title and
\* response = summary; pages with an empty or missing summary add no pair.
C14_TrainingPairs ==
    ChatbotBuilt =>
        LET faq_section == knowledge_base.faq_section
            summarized == SelectSeq(knowledge_base.pages, HasSummary)
            training_data == chatbot_data.training_data
        IN /\ Len(training_data) = Len(faq_section) + Len(summarized)
           /\ Len(faq_section) <= 9
           /\ \A i \in DOMAIN faq_section :
                 training_data[i] = [intent |-> <<"f","a","q","_", DigitChars[i + 1]>>,
                                     text |-> faq_section[i].question,
                                     response |-> faq_section[i].answer]
           /\ \A i \in DOMAIN summarized :
                 /\ training_data[Len(faq_section) + i].text = summarized[i].title
                 /\ training_data[Len(faq_section) + i].response = summarized[i].summary

\* FAQ pairs followed by page pairs, with a page whose summary is missing and a
\* page whose summary is empty left out
C14_Witness ==
    /\ fpc = "chatbot"
    /\ knowledge_base.faq_section # <<>>
    /\ \E i \in DOMAIN knowledge_base.pages : HasSummary(knowledge_base.pages[i])
    /\ \E i \in DOMAIN knowledge_base.pages :
          "summary" \notin DOMAIN knowledge_base.pages[i]
    /\ \E i \in DOMAIN knowledge_base.pages :
          /\ "summary" \in DOMAIN knowledge_base.pages[i]
          /\ knowledge_base.pages[i].summary = <<>>
    /\ Len(chatbot_data.training_data) = Len(knowledge_base.faq_section) + 1

\* C15: within one run of create_chatbot_ready_format all intent names (the
\* faq_i names and the page names derived from the URLs) are pairwise
\* distinct, for every knowledge base whose pages have pairwise distinct URLs.
C15_IntentUniqueness ==
    (/\ ChatbotBuilt
     /\ \A i, j \in DOMAIN knowledge_base.pages :
           i # j => knowledge_base.pages[i].url # knowledge_base.pages[j].url)
    => \A i, j \in DOMAIN chatbot_data.intents :
           i # j => chatbot_data.intents[i] # chatbot_data.intents[j]

-----------------------------------------------------------------------------
(* LlamaProcessor (llama_processor.py): batch_process_pages, the rate limit  *)
(* and the fallback entry. Page texts are strings (sequences of characters). *)

\* number of pages handed to batch_process_pages
MaxBatch == 2
\* seconds of clock time the model follows
MaxTicks == 3
\* the number of keywords _create_fallback_entry keeps (llama_processor.py:154)
TopKeywords == 10

\* sep.join(parts)
RECURSIVE join(_, _)
join(parts, sep) ==
    IF parts = <<>> THEN <<>>
    ELSE IF Len(parts) = 1 THEN parts[1]
    ELSE parts[1] \o sep \o join(Tail(parts), sep)

\* str.split(): the maximal runs of characters that are not whitespace
split(text) ==
    LET starts == {i \in DOMAIN text :
                     text[i] \notin Whitespace /\ (i = 1 \/ text[i - 1] \in Whitespace)}
        start(n) == CHOOSE i \in starts : Cardinality({j \in starts : j < i}) = n - 1
        end(i) == CHOOSE j \in i..Len(text) :
                     /\ \A k \in i..j : text[k] \notin Whitespace
                     /\ (j = Len(text) \/ text[j + 1] \in Whitespace)
    IN [n \in 1..Cardinality(starts) |-> SubSeq(text, start(n), end(start(n)))]

\* str.isalpha() (the texts of the model are ASCII)
isalpha(word) ==
    /\ word # <<>>
    /\ \A i \in DOMAIN word : word[i] \in Range(Upper) \cup Range(LowerOf)

\* text[:n]
prefix(text, n) == SubSeq(text, 1, IF Len(text) < n THEN Len(text) ELSE n)

\* word_freq after the loop of lines 149-151, as the (word, freq) items of the
\* dict in insertion order
RECURSIVE word_freq(_)
word_freq(words) ==
    IF words = <<>> THEN <<>>
    ELSE LET before == word_freq(SubSeq(words, 1, Len(words) - 1))
             word == words[Len(words)]
         IN IF Len(word) > 3 /\ isalpha(word)
            THEN IF \E i \in DOMAIN before : before[i].word = word
                 THEN [i \in DOMAIN before |->
                          IF before[i].word = word
                          THEN [word |-> word, freq |-> before[i].freq + 1]
                          ELSE before[i]]
                 ELSE Append(before, [word |-> word, freq |-> 1])
            ELSE before

\* sorted(items, key=lambda x: x[1]) without reverse=True: rarest words first
RECURSIVE sort_by_rarity(_)
sort_by_rarity(items) ==
    IF items = <<>> THEN <<>>
    ELSE LET sorted == sort_by_rarity(SubSeq(items, 1, Len(items) - 1))
             x == items[Len(items)]
             k == Cardinality({i \in DOMAIN sorted : sorted[i].freq <= x.freq})
         IN SubSeq(sorted, 1, k) \o <<x>> \o SubSeq(sorted, k + 1, Len(sorted))

\* sorted(word_freq.items(), key=lambda x: x[1], reverse=True): stable
RECURSIVE sort_by_frequency(_)
sort_by_frequency(items) ==
    IF items = <<>> THEN <<>>
    ELSE LET sorted == sort_by_frequency(SubSeq(items, 1, Len(items) - 1))
             x == items[Len(items)]
             k == Cardinality({i \in DOMAIN sorted : sorted[i].freq >= x.freq})
         IN SubSeq(sorted, 1, k) \o <<x>> \o SubSeq(sorted, k + 1, Len(sorted))

\* the keywords of _create_fallback_entry: lines 147-155
fallback_keywords(content) ==
    LET top == prefix(sort_by_frequency(word_freq(split(Lower(content)))), TopKeywords)
    IN [i \in DOMAIN top |-> top[i].word]

\* text[:n] + "..." if len(text) > n else text
ellipsis(text, n) == IF Len(text) > n THEN prefix(text, n) \o <<".",".",".">> ELSE text

\* LlamaProcessor._create_fallback_entry(content, url, title)
_create_fallback_entry(content, url, title) ==
    LET keywords == fallback_keywords(content) IN
    [url |-> url, title |-> title,
     summary |-> <<"C","o","n","t","e","n","t"," ","f","r","o","m"," ">> \o title \o <<" ","-"," ">>
                 \o prefix(content, 200) \o <<".",".",".">>,
     key_topics |-> prefix(keywords, 5),
     faq_questions |-> <<Faq(<<"W","h","a","t"," ","i","s"," ">> \o title \o <<"?">>,
                             ellipsis(content, 300))>>,
     important_facts |-> <<ellipsis(content, 200)>>,
     keywords |-> keywords,
     content_type |-> "other",
     relevance_score |-> 5,
     processing_method |-> "fallback"]

\* f"{'#' * level}"
RECURSIVE hashes(_)
hashes(level) == IF level = 0 THEN <<>> ELSE <<"#">> \o hashes(level - 1)

\* combined_content of batch_process_pages: lines 188-208 (the bullet that
\* prefixes a list item is written "*": neither a letter nor whitespace)
combined_content(page_data) ==
    LET content_parts ==
            (IF page_data.main_heading # <<>>
             THEN << <<"M","a","i","n"," ","H","e","a","d","i","n","g",":"," ">> \o page_data.main_heading >>
             ELSE <<>>)
            \o (IF page_data.meta_description # <<>>
                THEN << <<"D","e","s","c","r","i","p","t","i","o","n",":"," ">> \o page_data.meta_description >>
                ELSE <<>>)
            \o [i \in DOMAIN page_data.headings |->
                   hashes(page_data.headings[i].level) \o <<" ">>
                   \o page_data.headings[i].text]
            \o page_data.paragraphs
            \o [i \in DOMAIN page_data.list_items |->
                   <<"*", " ">> \o page_data.list_items[i]]
    IN join(content_parts, <<"\n", "\n">>)

\* the outcomes of _make_api_request and of parsing its result:
\*   error       requests.post raises (time-out, connection, HTTP status)
\*   bad_format  the reply has no choices[0].message.content
\*   non_json    the content is not JSON: json.loads raises JSONDecodeError
\*   non_object  the content is JSON but no object (list, string, number, null)
\*   object      the content is a JSON object
ResponseKinds == {"error", "bad_format", "non_json", "non_object", "object"}

\* the JSON objects the model may answer with
ResponseObjects ==
    { <<>>,
      [summary |-> <<"s">>, key_topics |-> <<"t1">>,
       faq_questions |-> <<Faq(<<"q">>, <<"a">>)>>, keywords |-> <<"k1">>,
       content_type |-> "article", relevance_score |-> 9],
      [url |-> <<"u">>, title |-> <<"v">>, summary |-> <<>>] }

Responses ==
    {[kind |-> k, object |-> <<>>] : k \in ResponseKinds \ {"object"}}
    \cup {[kind |-> "object", object |-> o] : o \in ResponseObjects}

\* process_content_for_knowledge_base that returns the parsed object as it is
process_content_unlabelled(content, url, title, response) ==
    IF response.kind = "object" THEN response.object
    ELSE _create_fallback_entry(content, url, title)

\* LlamaProcessor.process_content_for_knowledge_base(content, url, title), given
\* what the API call does: lines 108-142 (processed_at is left out)
process_content_for_knowledge_base(content, url, title, response) ==
    IF response.kind \in {"error", "bad_format"}
    THEN _create_fallback_entry(content, url, title)    \* line 142
    ELSE IF response.kind = "non_json"
    THEN _create_fallback_entry(content, url, title)    \* line 138
    ELSE IF response.kind = "non_object"
    THEN _create_fallback_entry(content, url, title)    \* TypeError at line 127
    ELSE Put(Put(response.object, "url", url), "title", title)

\* _enforce_rate_limit does not wait
sleep_time_none(current_time, last) == 0

\* sleep_time of _enforce_rate_limit: lines 26-29 (0: no sleep)
sleep_time(current_time, last) ==
    IF current_time - last < LLAMA_RATE_LIMIT_DELAY
    THEN LLAMA_RATE_LIMIT_DELAY - (current_time - last)
    ELSE 0

\* a scraped page as scrape_page returns it (the fields the processor reads)
PageData(url, title, main_heading, meta_description, headings, paragraphs, list_items, content) ==
    [url |-> url, title |-> title, main_heading |-> main_heading,
     meta_description |-> meta_description, headings |-> headings,
     paragraphs |-> paragraphs, list_items |-> list_items, content |-> content]

\* a page whose text sits in no heading, long paragraph or long list item
PlainPage ==
    PageData(KbUrls[1], KbTitles[1], <<>>, <<>>, <<>>, <<>>, <<>>,
             <<"s","o","m","e"," ","t","e","x","t"," ","h","e","r","e">>)

\* a page with a main heading and two headings
HeadingPage ==
    PageData(KbUrls[2], KbTitles[2], <<"H","e","l","l","o"," ","W","o","r","l","d">>, <<>>,
             << [level |-> 1, text |-> <<"H","e","l","l","o"," ","W","o","r","l","d">>],
                [level |-> 2, text |-> <<"M","o","r","e">>] >>,
             <<>>, <<>>, <<"H","e","l","l","o"," ","W","o","r","l","d"," ","M","o","r","e">>)

\* a page with twelve different words of four letters, the last one repeated,
\* and a list item with words that do not count
WordyPage ==
    PageData(KbUrls[3], KbTitles[3], <<>>,
             <<"a","a","a","a"," ","b","b","b","b"," ","c","c","c","c"," ","d","d","d","d"," ","e","e","e","e"," ","f","f","f","f"," ","g","g","g","g"," ","h","h","h","h"," ","i","i","i","i"," ","j","j","j","j"," ","k","k","k","k"," ","l","l","l","l"," ","l","l","l","l">>,
             <<>>, <<>>,
             << <<"L","L","L","L"," ","i","t","'","s"," ","a","b","c"," ","x","1","y","z"," ","j","j","j","j">> >>,
             <<"a","a","a","a"," ","b","b","b","b">>)

EnrichPages == {PlainPage, HeadingPage, WordyPage}

\* the lists of at most MaxBatch pages
BatchLists == UNION {[1..n -> EnrichPages] : n \in 0..MaxBatch}

\* the API request begins: self.last_request_time = time.time(), line 33
begin_request ==
    /\ last_request_time' = now
    /\ request_starts' = Append(request_starts, now)
    /\ epc' = "request"

\* batch_process_pages, one iteration up to the API request: lines 183-211,
\* process_content_for_knowledge_base lines 79-108 and _enforce_rate_limit
\* lines 25-33 (pages made by scrape_page have every key read here)
batch_begin ==
    /\ epc = "page"
    /\ batch_i <= Len(batch_pages)
    /\ IF sleep_time(now, last_request_time) > 0
       THEN /\ wake' = now + sleep_time(now, last_request_time)
            /\ epc' = "rate_sleep"
            /\ UNCHANGED <<last_request_time, request_starts>>
       ELSE begin_request /\ UNCHANGED wake
    /\ UNCHANGED <<formatVars, batch_pages, batch_i, now, last_response>>

\* time.sleep(sleep_time) returns, no earlier than asked: lines 31-33
rate_sleep_done ==
    /\ epc = "rate_sleep"
    /\ now >= wake
    /\ begin_request
    /\ UNCHANGED <<formatVars, batch_pages, batch_i, now, wake, last_response>>

\* the API call ends one way or another and the entry is appended: lines
\* 62-75, 108-142 and 217
respond(response) ==
    /\ epc = "request"
    /\ LET page_data == batch_pages[batch_i] IN
       processed_data' =
          Append(processed_data,
                 process_content_for_knowledge_base(combined_content(page_data),
                                                    page_data.url, page_data.title,
                                                    response))
    /\ last_response' = response.kind
    /\ batch_i' = batch_i + 1
    /\ epc' = "page"
    /\ UNCHANGED <<knowledge_base, chatbot_data, fpc, chatbot_file, sql_statements,
                   save_log, batch_pages, now, last_request_time, wake,
                   request_starts>>

\* the loop ends and batch_process_pages returns processed_data: lines 232-233
batch_return ==
    /\ epc = "page"
    /\ batch_i > Len(batch_pages)
    /\ epc' = "returned"
    /\ UNCHANGED <<formatVars, batch_pages, batch_i, now, last_request_time, wake,
                   request_starts, last_response>>

\* a second passes while the processor sleeps or waits for the API
tick ==
    /\ epc \in {"rate_sleep", "request"}
    /\ now < LLAMA_RATE_LIMIT_DELAY + MaxTicks
    /\ now' = now + 1
    /\ UNCHANGED <<formatVars, epc, batch_pages, batch_i, last_request_time, wake,
                   request_starts, last_response>>

\* processor.batch_process_pages(scraped_data) on every list of BatchLists
EnrichStart ==
    /\ CrawlInit
    /\ ResolverInit
    /\ GuiInit
    /\ FormatInit
    /\ FetchInit
    /\ SqlInit
    /\ epc = "page"
    /\ batch_pages \in BatchLists
    /\ batch_i = 1
    /\ now = LLAMA_RATE_LIMIT_DELAY
    /\ last_request_time = 0
    /\ wake = 0
    /\ request_starts = <<>>
    /\ last_response = "none"

EnrichNext ==
    \/ batch_begin /\ UNCHANGED <<crawlVars, resolverVars, guiVars, fetchVars, sqlVars>>
    \/ rate_sleep_done /\ UNCHANGED <<crawlVars, resolverVars, guiVars, fetchVars, sqlVars>>
    \/ \E response \in Responses : respond(response) /\ UNCHANGED <<crawlVars, resolverVars, guiVars, fetchVars, sqlVars>>
    \/ batch_return /\ UNCHANGED <<crawlVars, resolverVars, guiVars, fetchVars, sqlVars>>
    \/ tick /\ UNCHANGED <<crawlVars, resolverVars, guiVars, fetchVars, sqlVars>>

EnrichSpec == EnrichStart /\ [][EnrichNext]_vars

-----------------------------------------------------------------------------
(* Claims about the enrichment stage                                        *)

\* the responses with which enrichment fails
FailedKinds == {"error", "bad_format", "non_json", "non_object"}

\* the entry stands for the page: it carries its url and its title
StandsFor(entry, page_data) ==
    /\ "url" \in DOMAIN entry /\ entry.url = page_data.url
    /\ "title" \in DOMAIN entry /\ entry.title = page_data.title

\* the entry was made by _create_fallback_entry
IsFallback(entry) ==
    "processing_method" \in DOMAIN entry /\ entry.processing_method = "fallback"

\* C16: whatever the API call does, batch_process_pages does not raise and
\* appends exactly one entry for the page, so its output has the length and
\* the page order of its input, and a page whose enrichment failed is
\* represented by a fallback entry carrying that page's url and title.
C16_EnrichmentRecovery ==
    /\ [](/\ Len(processed_data) <= Len(batch_pages)
          /\ \A i \in DOMAIN processed_data :
                StandsFor(processed_data[i], batch_pages[i]))
    /\ [](epc = "returned" => Len(processed_data) = Len(batch_pages))
    /\ [][(epc = "request" /\ epc' # "request") =>
            /\ epc' = "page"
            /\ Len(processed_data') = Len(processed_data) + 1
            /\ SubSeq(processed_data', 1, Len(processed_data)) = processed_data
            /\ last_response' \in FailedKinds =>
                  IsFallback(processed_data'[Len(processed_data')])]_vars

\* a batch returned after a page enriched by the model and a page whose
\* response was JSON but no object
C16_Witness ==
    /\ epc = "returned"
    /\ Len(batch_pages) = MaxBatch
    /\ ~IsFallback(processed_data[1])
    /\ last_response = "non_object"
    /\ IsFallback(processed_data[Len(processed_data)])

\* the words of the content as _create_fallback_entry counts them
ContentWords(content) == split(Lower(content))

\* a word that counts as a keyword: longer than 3 characters and alphabetic
Qualifies(word) ==
    /\ Len(word) > 3
    /\ \A i \in DOMAIN word : word[i] \in Range(Upper) \cup Range(LowerOf)

\* how often the word occurs among the words
Frequency(word, words) == Cardinality({i \in DOMAIN words : words[i] = word})

\* keywords are at most 10 distinct qualifying words of the content, ordered
\* by non-increasing frequency, and no word left out is more frequent
TopByFrequency(keywords, words) ==
    LET freq == [word \in Range(words) |-> Frequency(word, words)] IN
    /\ Len(keywords) <= 10
    /\ \A i, j \in DOMAIN keywords : i # j => keywords[i] # keywords[j]
    /\ \A i \in DOMAIN keywords :
          /\ Qualifies(keywords[i])
          /\ keywords[i] \in Range(words)
    /\ \A i, j \in DOMAIN keywords :
          i < j => freq[keywords[i]] >= freq[keywords[j]]
    /\ \A word \in Range(words) \ Range(keywords) :
          Qualifies(word) =>
             /\ Len(keywords) = 10
             /\ \A i \in DOMAIN keywords : freq[keywords[i]] >= freq[word]

\* the content from which the last entry of processed_data was made
LastContent == combined_content(batch_pages[Len(processed_data)])

\* C17: when the enrichment response for a page is not valid JSON, the record
\* has processing_method = 'fallback' and a non-empty keywords list of at most
\* 10 distinct words of the content, each longer than 3 characters and
\* alphabetic, ordered by non-increasing frequency (the top 10 by frequency).
C17_FallbackContent ==
    (last_response = "non_json" /\ processed_data # <<>>) =>
        LET entry == processed_data[Len(processed_data)]
            words == ContentWords(LastContent)
        IN /\ IsFallback(entry)
           /\ entry.keywords # <<>>
           /\ TopByFrequency(entry.keywords, words)

\* C18: enrichment API requests are issued one at a time, and between the
\* starts of two consecutive requests of one processor at least
\* LLAMA_RATE_LIMIT_DELAY elapses, also after a request that failed.
C18_RateLimit ==
    /\ Len(request_starts) - Len(processed_data) \in {0, 1}
    /\ epc = "request" <=> Len(request_starts) = Len(processed_data) + 1
    /\ \A k \in 2..Len(request_starts) :
          request_starts[k] - request_starts[k - 1] >= LLAMA_RATE_LIMIT_DELAY

\* a request failed at once and the next one began after the processor had
\* slept for the whole delay
C18_Witness ==
    /\ epc = "request"
    /\ Len(request_starts) = 2
    /\ last_response = "error"
    /\ request_starts[2] - request_starts[1] = LLAMA_RATE_LIMIT_DELAY
    /\ wake = request_starts[2]

-----------------------------------------------------------------------------
(* Claims about persistence and about the recorded URLs                     *)

\* C19: when an output file (the knowledge base JSON, the chatbot JSON or the
\* SQL insert file) cannot be written, the save operation propagates the error
\* to its caller and reports no success, and the write is attempted exactly
\* once.
C19_PersistenceFailure ==
    save_log.op # "none" =>
        /\ save_log.attempts = 1
        /\ save_log.io_failed =>
              /\ save_log.raised
              /\ ~save_log.success_reported

\* C20: every url recorded by a crawl carries neither a query string nor a
\* fragment, for every accepted start_url, one with a query string included.
C20_CanonicalRecordUrls ==
    \A u \in RecordedUrls : u.query = Empty /\ u.fragment = Empty

-----------------------------------------------------------------------------
(* Claims about the link resolver and the frontier                          *)

\* the path of a URL ends, case-insensitively, with a skipped extension
HasSkippedExtension(u) ==
    \E ext \in skip_extensions : EndsWith(Lower(u.path), ext)

\* C21: no URL in the set returned by find_internal_links has a path that
\* ends (case-insensitively) with one of the skipped file extensions,
\* whatever query string the original href carried.
C21_SkipExtensions ==
    (r_out.done /\ ~r_out.raised) =>
        \A u \in r_out.links : ~HasSkippedExtension(u)

\* C22: an anchor whose href cannot be parsed as a URL is left out of the
\* set find_internal_links returns; the page's other in-scope links are still
\* returned and nothing is raised.
C22_UnparseableLinksSkipped ==
    r_out.done =>
        /\ ~r_out.raised
        /\ r_out.links =
              UNION { resolve_link(r_in.base, h, r_in.visited) :
                      h \in {g \in r_in.hrefs : ~g.bad} }

-----------------------------------------------------------------------------
(* WebScraper.get_page_content and the retry strategy mounted on its session *)
(* (web_scraper.py:32-45, 76-117). Retry is urllib3's, with the arguments    *)
(* __init__ passes and its defaults for the others.                          *)

\* number of get_page_content calls followed
MaxFetches == 2

\* Retry(status_forcelist=[429, 500, 502, 503, 504]): line 39
status_forcelist == {429, 500, 502, 503, 504}

\* Retry.RETRY_AFTER_STATUS_CODES: with respect_retry_after_header left at its
\* default (True), a response with one of these statuses and a Retry-After
\* header is retried as well
RETRY_AFTER_STATUS_CODES == {413, 429, 503}

\* the response statuses a server answers with
Statuses == {200, 404, 413, 429, 503}

\* a reply to one request: a connection-level failure, a response, or another
\* exception raised inside the try block; html: the content type holds
\* text/html; blocked: a bot-challenge page with fewer than 100 characters
Reply(kind, status, retry_after, html, blocked) ==
    [kind |-> kind, status |-> status, retry_after |-> retry_after, html |-> html,
     blocked |-> blocked]

Replies ==
    { Reply(k, 0, FALSE, FALSE, FALSE) : k \in {"connect_error", "read_error", "exception"} }
    \cup { Reply("response", 200, FALSE, h, b) : h \in BOOLEAN, b \in BOOLEAN }
    \cup { Reply("response", st, ra, TRUE, FALSE) : st \in Statuses \ {200}, ra \in BOOLEAN }

\* Retry.is_retry(method, status_code, has_retry_after) for a GET
is_retry(rt, status_code, has_retry_after) ==
    IF status_code \in status_forcelist THEN TRUE
    ELSE /\ rt.total # 0
         /\ has_retry_after
         /\ status_code \in RETRY_AFTER_STATUS_CODES

\* Retry.increment: the Retry object after one more failure of that kind
increment(rt, reply) ==
    IF reply.kind = "connect_error"
    THEN [rt EXCEPT !.total = @ - 1, !.connect = @ - 1]
    ELSE IF reply.kind = "read_error"
    THEN [rt EXCEPT !.total = @ - 1, !.read = @ - 1]
    ELSE [rt EXCEPT !.total = @ - 1, !.status = @ - 1]

\* Retry.is_exhausted()
is_exhausted(rt) ==
    rt.total < 0 \/ rt.connect < 0 \/ rt.read < 0 \/ rt.status < 0

\* get_page_content once session.get has returned a response: lines 90-110
\* (raise_for_status raises HTTPError, which line 112 catches)
content_of(reply) ==
    IF reply.status >= 400 THEN "null"
    ELSE IF ~reply.html THEN "null"
    ELSE IF reply.blocked THEN "null"
    ELSE "soup"

\* the request is sent again (after the backoff sleep)
retry_request(rt, reply) ==
    /\ retries' = rt
    /\ retried_after' = retried_after \cup {reply}
    /\ UNCHANGED <<gpc, outcome>>

\* get_page_content returns
fetch_return(value) ==
    /\ gpc' = "returned"
    /\ outcome' = value
    /\ UNCHANGED <<retries, retried_after>>

\* scrape_page calls self.get_page_content(url): lines 78-84
get_page_content ==
    /\ gpc \in {"idle", "returned"}
    /\ fetches < MaxFetches
    /\ fetches' = fetches + 1
    /\ gpc' = "request"
    /\ retries' = retry_strategy
    /\ attempts' = 0
    /\ retried_after' = {}
    /\ last_reply' = NoReply
    /\ outcome' = "none"

\* one request of session.get and what follows it: lines 84-117
send_request(reply) ==
    /\ gpc = "request"
    /\ attempts' = attempts + 1
    /\ last_reply' = reply
    /\ IF reply.kind = "exception" THEN fetch_return("null")
       ELSE IF reply.kind \in {"connect_error", "read_error"}
       THEN IF is_exhausted(increment(retries, reply))
            THEN fetch_return("null")
            ELSE retry_request(increment(retries, reply), reply)
       ELSE IF is_retry(retries, reply.status, reply.retry_after)
               /\ ~is_exhausted(increment(retries, reply))
       THEN retry_request(increment(retries, reply), reply)
       ELSE fetch_return(content_of(reply))
    /\ UNCHANGED fetches

FetchStart ==
    /\ CrawlInit
    /\ ResolverInit
    /\ GuiInit
    /\ FormatInit
    /\ EnrichInit
    /\ FetchInit
    /\ SqlInit

FetchNext ==
    \/ get_page_content /\ UNCHANGED <<crawlVars, resolverVars, guiVars, formatVars, enrichVars, sqlVars>>
    \/ \E reply \in Replies : send_request(reply) /\ UNCHANGED <<crawlVars, resolverVars, guiVars, formatVars, enrichVars, sqlVars>>

FetchSpec == FetchStart /\ [][FetchNext]_vars

\* C23: one fetch makes at most 1 + 5 request attempts; it retries only after
\* a response status in {429, 500, 502, 503, 504} or a connection-level
\* failure, never after another 4xx status; and when the retries are used up,
\* on a non-retried error status, on a non-HTML content type or on any other
\* exception, get_page_content returns null instead of raising.
C23_FetchRetry ==
    /\ attempts <= 1 + RetryTotal
    /\ \A reply \in retried_after :
          \/ reply.kind \in {"connect_error", "read_error"}
          \/ reply.kind = "response" /\ reply.status \in status_forcelist
    /\ gpc = "returned" =>
          /\ outcome \in {"null", "soup"}
          /\ (\/ last_reply.kind # "response"
              \/ last_reply.status >= 400
              \/ ~last_reply.html) => outcome = "null"

\* the step dequeued a page and discarded it: its fetch failed or its text is
\* shorter than MIN_CONTENT_LENGTH
Discarded ==
    /\ last_page'.fetched
    /\ ~last_page.fetched
    /\ ~last_page'.soup \/ last_page'.content_length < MIN_CONTENT_LENGTH

\* C24: a step that discards the dequeued page (failed fetch, or text shorter
\* than MIN_CONTENT_LENGTH) adds none of its links to the frontier and leaves
\* results unchanged; every URL in the frontier is start_url or an internal
\* link of a page recorded by the call.
C24_DiscardedPages ==
    /\ [][ Discarded => /\ urls_to_visit' = Tail(urls_to_visit)
                        /\ scraped_data' = scraped_data ]_vars
    /\ [](\A u \in Range(urls_to_visit) :
             \/ u = start_url
             \/ \E i \in (call_base + 1)..Len(scraped_data) :
                   u \in Range(scraped_data[i].internal_links))

\* a page with internal links was discarded for its short text while the
\* frontier still held a link of a recorded page
C24_Witness ==
    /\ pc = "sleep"
    /\ last_page.soup
    /\ last_page.content_length < MIN_CONTENT_LENGTH
    /\ last_page.had_links
    /\ last_page.kind = "none"
    /\ urls_to_visit # <<>>
    /\ Len(scraped_data) > call_base

\* the step fetches the URL at the head of the frontier
Fetching == last_page'.fetched /\ ~last_page.fetched

\* C25: within one scrape_website call visited_urls is exactly the set of
\* URLs dequeued and fetched so far (a fetch adds its URL, nothing else
\* changes the set after the call has emptied it), no URL is fetched more
\* than once, and the url of every record appended during the call is in it.
C25_VisitedDiscipline ==
    /\ [][ IF Fetching
           THEN /\ Head(urls_to_visit) \notin visited_urls
                /\ visited_urls' = visited_urls \cup {Head(urls_to_visit)}
           ELSE \/ visited_urls' = visited_urls
                \/ calls' = calls + 1 /\ visited_urls' = {} ]_vars
    /\ [](RecordedUrls \subseteq visited_urls)

\* two URLs were fetched and the second fetch failed: visited, but no record
C25_Witness ==
    /\ pc = "sleep"
    /\ Cardinality(visited_urls) = 2
    /\ Cardinality(RecordedUrls) = 1
    /\ last_page.fetched
    /\ ~last_page.soup

\* C27: at the top of every iteration of scrape_website's loop the frontier
\* holds no URL twice and no URL that is in visited_urls; so the 'already
\* visited' branch is never taken and every dequeue leads to one fetch.
C27_FrontierInvariant ==
    /\ [](pc = "loop" =>
             /\ \A i, j \in DOMAIN urls_to_visit :
                   i # j => urls_to_visit[i] # urls_to_visit[j]
             /\ Range(urls_to_visit) \cap visited_urls = {})
    /\ [][ (pc = "loop" /\ pc' # "done") =>
              /\ Fetching
              /\ Len(urls_to_visit) >= 1
              /\ visited_urls' = visited_urls \cup {Head(urls_to_visit)} ]_vars

\* the second recorded page links to a URL that the first page had already
\* put into the frontier, and the frontier holds it once
C27_Witness ==
    /\ pc = "loop"
    /\ Len(scraped_data) = call_base + 2
    /\ \E u \in Range(urls_to_visit) :
          /\ u \in Range(scraped_data[call_base + 1].internal_links)
          /\ u \in Range(scraped_data[call_base + 2].internal_links)

-----------------------------------------------------------------------------
(* Claims about the indexes of one knowledge base document                  *)

\* the sum of the values of a dict of numbers
RECURSIVE SumOver(_, _)
SumOver(counts, keys) ==
    IF keys = {} THEN 0
    ELSE LET k == CHOOSE x \in keys : TRUE
         IN counts[k] + SumOver(counts, keys \ {k})

\* C28: in the document create_knowledge_base_structure returns,
\* metadata.total_pages = len(pages) = len(by_relevance) = the sum of the
\* content_types counts = the sum of the by_content_type bucket lengths;
\* total_faqs = len(faq_section); total_keywords = the number of keys of
\* keywords_index; by_url has at most total_pages keys, and fewer only when
\* two entries share a URL.
C28_CrossIndexConsistency ==
    KbBuilt =>
        LET metadata == knowledge_base.metadata
            search_index == knowledge_base.search_index
            bucket_lengths == [t \in DOMAIN search_index.by_content_type |->
                                  Len(search_index.by_content_type[t])]
            pages == knowledge_base.pages
        IN /\ metadata.total_pages = Len(pages)
           /\ metadata.total_pages = Len(search_index.by_relevance)
           /\ metadata.total_pages
                 = SumOver(metadata.content_types, DOMAIN metadata.content_types)
           /\ metadata.total_pages = SumOver(bucket_lengths, DOMAIN bucket_lengths)
           /\ metadata.total_faqs = Len(knowledge_base.faq_section)
           /\ metadata.total_keywords = Cardinality(DOMAIN knowledge_base.keywords_index)
           /\ Cardinality(DOMAIN search_index.by_url) <= metadata.total_pages
           /\ Cardinality(DOMAIN search_index.by_url) < metadata.total_pages =>
                 \E i, j \in DOMAIN pages :
                    i # j /\ Get(pages[i], "url", Empty) = Get(pages[j], "url", Empty)

\* three entries, two of them for one URL and of one content type, with FAQs
\* and a keyword listed by more than one entry
C28_Witness ==
    /\ fpc = "kb"
    /\ knowledge_base.metadata.total_pages = MaxEntries
    /\ Cardinality(DOMAIN knowledge_base.search_index.by_url) = MaxEntries - 1
    /\ Cardinality(DOMAIN knowledge_base.search_index.by_content_type) = 2
    /\ knowledge_base.metadata.total_faqs >= 3
    /\ \E k \in DOMAIN knowledge_base.keywords_index :
          Len(knowledge_base.keywords_index[k]) >= 2

-----------------------------------------------------------------------------
(* SQL generation on its own: generate_sql_inserts applied to training data  *)
(* and business ids that hold single quotes                                  *)

\* number of training pairs in the chatbot data handed to the converter
MaxPairs == 2

\* questions and answers: with one quote, only a quote, none, and blank
SqlTexts ==
    { <<"i","t","'","s">>, <<"'">>, <<"o","k">>, <<" ">> }

\* the business ids typed by the user (any non-empty text is accepted)
SqlBusinessIds == { <<"b","1">>, <<"o","'","b">> }

\* the training_data lists of the chatbot file
SqlTrainingData ==
    UNION { [1..n -> [text : SqlTexts, response : SqlTexts]] : n \in 0..MaxPairs }

SqlInputs == [training_data : SqlTrainingData, business_id : SqlBusinessIds]

\* converter.generate_sql_inserts(chatbot_data, business_id) runs on sql_in
sql_generate ==
    /\ ~sql_out.done
    /\ sql_out' = [done |-> TRUE,
                   statements |-> generate_sql_inserts(sql_in.training_data,
                                                       sql_in.business_id)]
    /\ UNCHANGED sql_in

SqlStart ==
    /\ CrawlInit
    /\ ResolverInit
    /\ GuiInit
    /\ FormatInit
    /\ EnrichInit
    /\ FetchInit
    /\ sql_in \in SqlInputs
    /\ sql_out = NotGenerated

SqlNext ==
    sql_generate /\ UNCHANGED <<crawlVars, resolverVars, guiVars, formatVars, enrichVars, fetchVars>>

SqlSpec == SqlStart /\ [][SqlNext]_vars

\* every single quote of the text is one of a pair of adjacent quotes, so the
\* text cannot end the '...' literal it is put into
RECURSIVE QuotesDoubled(_)
QuotesDoubled(text) ==
    IF text = <<>> THEN TRUE
    ELSE IF Head(text) # "'" THEN QuotesDoubled(Tail(text))
    ELSE /\ Len(text) >= 2
         /\ text[2] = "'"
         /\ QuotesDoubled(Tail(Tail(text)))

\* the category names, written as whole words: none of them holds a quote
QuoteFreeCategories ==
    {"services", "pricing", "contact", "support", "policies", "general"}

\* C30: in every INSERT statement generated from training data, each value
\* put between single quotes (business_id, question, answer, category) has
\* every single quote doubled.
C30_SqlEscaping ==
    sql_out.done =>
        \A i \in DOMAIN sql_out.statements :
            LET statement == sql_out.statements[i]
            IN /\ QuotesDoubled(statement.business_id)
               /\ QuotesDoubled(statement.question)
               /\ QuotesDoubled(statement.answer)
               /\ statement.category \in QuoteFreeCategories

-----------------------------------------------------------------------------
(* Claims about the GUI's controls and its worker threads                   *)

\* the scrape_worker threads that have been started and have not ended: the
\* one crawling or processing, and those inside their finally block
WorkerThreads == pending + (IF wpc = "idle" THEN 0 ELSE 1)

\* C26: whenever no scraping worker is running, is_scraping is False, the
\* start button is enabled and the stop button is disabled; while a worker
\* started by start_scraping has not reached its clean-up, the start button is
\* disabled and the stop button enabled (a start_scraping call whose
\* validation fails changes no variable at all).
C26_GuiControlState ==
    /\ WorkerThreads = 0 =>
          /\ ~is_scraping
          /\ start_button = "normal"
          /\ stop_button = "disabled"
    /\ wpc # "idle" =>
          /\ start_button = "disabled"
          /\ stop_button = "normal"

\* C29: under any interleaving of start_scraping, stop_scraping and worker
\* steps at most one scrape_worker thread is active at a time, and once
\* stop_scraping has cancelled a running crawl, that crawl never finds
\* is_scraping True again.
C29_SingleWorker ==
    /\ WorkerThreads <= 1
    /\ (stop_seen /\ wpc \in {"count", "count_fetch", "scrape", "fetch", "sleep", "exited"})
          => ~is_scraping

====
